---- MODULE Spec2Model ----
(***************************************************************************)
(* A model of src/command.py: the chat commands of the Atlas server watch  *)
(* bot and the watch loop that StartCommand.execute runs.                  *)
(*                                                                         *)
(* Every handler is a coroutine on one asyncio event loop.  A coroutine    *)
(* runs without interruption from one `await` to the next, so an action of *)
(* this model is the code between two awaits: a command handler from the   *)
(* arrival of its message, or one step of a watch loop from the await it   *)
(* was suspended at to the await it reaches next.  requests.get is a       *)
(* blocking call, not an await: the fetch is inside a step.  A command     *)
(* handler that awaits before it has done its work is suspended there and *)
(* resumed by a later action.                                              *)
(*                                                                         *)
(* Python strings are sequences of one-character strings.                  *)
(***************************************************************************)
EXTENDS Integers, Sequences, FiniteSets, Bags, TLC

\* ------------------------------------------------------------ bounds
\* The number of /start messages of a behaviour of Spec, each of which
\* starts a StartCommand.execute coroutine.
MaxLoops == 2
\* The number of /start messages of a behaviour of SpecPolicy.
MaxPolicyLoops == 1

\* The number of command handlers suspended in an await of execute_cmd at
\* one time.
MaxPending == 2

Tasks == 1..MaxLoops
PolicyTasks == 1..MaxPolicyLoops
AllTasks == Tasks \cup PolicyTasks

\* ------------------------------------------------------------ strings
\* A str is the sequence of its characters. A printable ASCII character is
\* written as itself, any other character by its code point, as in "U+00E9".
Digits == <<"0","1","2","3","4","5","6","7","8","9">>

\* str.upper(): every character whose upper case is not itself, with its
\* upper case, which has one, two or three characters (Unicode 14.0.0).
UpperCaseRows == <<
  <<"a", <<"A">>>>, <<"b", <<"B">>>>, <<"c", <<"C">>>>, <<"d", <<"D">>>>, <<"e", <<"E">>>>,
   <<"f", <<"F">>>>, <<"g", <<"G">>>>, <<"h", <<"H">>>>, <<"i", <<"I">>>>, <<"j", <<"J">>>>,
   <<"k", <<"K">>>>, <<"l", <<"L">>>>, <<"m", <<"M">>>>, <<"n", <<"N">>>>, <<"o", <<"O">>>>,
   <<"p", <<"P">>>>, <<"q", <<"Q">>>>, <<"r", <<"R">>>>, <<"s", <<"S">>>>, <<"t", <<"T">>>>,
   <<"u", <<"U">>>>, <<"v", <<"V">>>>, <<"w", <<"W">>>>, <<"x", <<"X">>>>, <<"y", <<"Y">>>>,
   <<"z", <<"Z">>>>, <<"U+00B5", <<"U+039C">>>>, <<"U+00DF", <<"S","S">>>>,
   <<"U+00E0", <<"U+00C0">>>>, <<"U+00E1", <<"U+00C1">>>>, <<"U+00E2", <<"U+00C2">>>>,
   <<"U+00E3", <<"U+00C3">>>>, <<"U+00E4", <<"U+00C4">>>>, <<"U+00E5", <<"U+00C5">>>>,
   <<"U+00E6", <<"U+00C6">>>>, <<"U+00E7", <<"U+00C7">>>>, <<"U+00E8", <<"U+00C8">>>>,
   <<"U+00E9", <<"U+00C9">>>>, <<"U+00EA", <<"U+00CA">>>>, <<"U+00EB", <<"U+00CB">>>>,
   <<"U+00EC", <<"U+00CC">>>>, <<"U+00ED", <<"U+00CD">>>>, <<"U+00EE", <<"U+00CE">>>>,
   <<"U+00EF", <<"U+00CF">>>>, <<"U+00F0", <<"U+00D0">>>>, <<"U+00F1", <<"U+00D1">>>>,
   <<"U+00F2", <<"U+00D2">>>>, <<"U+00F3", <<"U+00D3">>>>, <<"U+00F4", <<"U+00D4">>>>,
   <<"U+00F5", <<"U+00D5">>>>, <<"U+00F6", <<"U+00D6">>>>, <<"U+00F8", <<"U+00D8">>>>,
   <<"U+00F9", <<"U+00D9">>>>, <<"U+00FA", <<"U+00DA">>>>, <<"U+00FB", <<"U+00DB">>>>,
   <<"U+00FC", <<"U+00DC">>>>, <<"U+00FD", <<"U+00DD">>>>, <<"U+00FE", <<"U+00DE">>>>,
   <<"U+00FF", <<"U+0178">>>>, <<"U+0101", <<"U+0100">>>>, <<"U+0103", <<"U+0102">>>>,
   <<"U+0105", <<"U+0104">>>>, <<"U+0107", <<"U+0106">>>>, <<"U+0109", <<"U+0108">>>>,
   <<"U+010B", <<"U+010A">>>>, <<"U+010D", <<"U+010C">>>>, <<"U+010F", <<"U+010E">>>>,
   <<"U+0111", <<"U+0110">>>>, <<"U+0113", <<"U+0112">>>>, <<"U+0115", <<"U+0114">>>>,
   <<"U+0117", <<"U+0116">>>>, <<"U+0119", <<"U+0118">>>>, <<"U+011B", <<"U+011A">>>>,
   <<"U+011D", <<"U+011C">>>>, <<"U+011F", <<"U+011E">>>>, <<"U+0121", <<"U+0120">>>>,
   <<"U+0123", <<"U+0122">>>>, <<"U+0125", <<"U+0124">>>>, <<"U+0127", <<"U+0126">>>>,
   <<"U+0129", <<"U+0128">>>>, <<"U+012B", <<"U+012A">>>>, <<"U+012D", <<"U+012C">>>>,
   <<"U+012F", <<"U+012E">>>>, <<"U+0131", <<"I">>>>, <<"U+0133", <<"U+0132">>>>,
   <<"U+0135", <<"U+0134">>>>, <<"U+0137", <<"U+0136">>>>, <<"U+013A", <<"U+0139">>>>,
   <<"U+013C", <<"U+013B">>>>, <<"U+013E", <<"U+013D">>>>, <<"U+0140", <<"U+013F">>>>,
   <<"U+0142", <<"U+0141">>>>, <<"U+0144", <<"U+0143">>>>, <<"U+0146", <<"U+0145">>>>,
   <<"U+0148", <<"U+0147">>>>, <<"U+0149", <<"U+02BC","N">>>>, <<"U+014B", <<"U+014A">>>>,
   <<"U+014D", <<"U+014C">>>>, <<"U+014F", <<"U+014E">>>>, <<"U+0151", <<"U+0150">>>>,
   <<"U+0153", <<"U+0152">>>>, <<"U+0155", <<"U+0154">>>>, <<"U+0157", <<"U+0156">>>>,
   <<"U+0159", <<"U+0158">>>>, <<"U+015B", <<"U+015A">>>>, <<"U+015D", <<"U+015C">>>>,
   <<"U+015F", <<"U+015E">>>>, <<"U+0161", <<"U+0160">>>>, <<"U+0163", <<"U+0162">>>>,
   <<"U+0165", <<"U+0164">>>>, <<"U+0167", <<"U+0166">>>>, <<"U+0169", <<"U+0168">>>>,
   <<"U+016B", <<"U+016A">>>>, <<"U+016D", <<"U+016C">>>>, <<"U+016F", <<"U+016E">>>>,
   <<"U+0171", <<"U+0170">>>>, <<"U+0173", <<"U+0172">>>>, <<"U+0175", <<"U+0174">>>>,
   <<"U+0177", <<"U+0176">>>>, <<"U+017A", <<"U+0179">>>>, <<"U+017C", <<"U+017B">>>>,
   <<"U+017E", <<"U+017D">>>>, <<"U+017F", <<"S">>>>, <<"U+0180", <<"U+0243">>>>,
   <<"U+0183", <<"U+0182">>>>, <<"U+0185", <<"U+0184">>>>, <<"U+0188", <<"U+0187">>>>,
   <<"U+018C", <<"U+018B">>>>, <<"U+0192", <<"U+0191">>>>, <<"U+0195", <<"U+01F6">>>>,
   <<"U+0199", <<"U+0198">>>>, <<"U+019A", <<"U+023D">>>>, <<"U+019E", <<"U+0220">>>>,
   <<"U+01A1", <<"U+01A0">>>>, <<"U+01A3", <<"U+01A2">>>>, <<"U+01A5", <<"U+01A4">>>>,
   <<"U+01A8", <<"U+01A7">>>>, <<"U+01AD", <<"U+01AC">>>>, <<"U+01B0", <<"U+01AF">>>>,
   <<"U+01B4", <<"U+01B3">>>>, <<"U+01B6", <<"U+01B5">>>>, <<"U+01B9", <<"U+01B8">>>>,
   <<"U+01BD", <<"U+01BC">>>>, <<"U+01BF", <<"U+01F7">>>>, <<"U+01C5", <<"U+01C4">>>>,
   <<"U+01C6", <<"U+01C4">>>>, <<"U+01C8", <<"U+01C7">>>>, <<"U+01C9", <<"U+01C7">>>>,
   <<"U+01CB", <<"U+01CA">>>>, <<"U+01CC", <<"U+01CA">>>>, <<"U+01CE", <<"U+01CD">>>>,
   <<"U+01D0", <<"U+01CF">>>>, <<"U+01D2", <<"U+01D1">>>>, <<"U+01D4", <<"U+01D3">>>>,
   <<"U+01D6", <<"U+01D5">>>>, <<"U+01D8", <<"U+01D7">>>>, <<"U+01DA", <<"U+01D9">>>>,
   <<"U+01DC", <<"U+01DB">>>>, <<"U+01DD", <<"U+018E">>>>, <<"U+01DF", <<"U+01DE">>>>,
   <<"U+01E1", <<"U+01E0">>>>, <<"U+01E3", <<"U+01E2">>>>, <<"U+01E5", <<"U+01E4">>>>,
   <<"U+01E7", <<"U+01E6">>>>, <<"U+01E9", <<"U+01E8">>>>, <<"U+01EB", <<"U+01EA">>>>,
   <<"U+01ED", <<"U+01EC">>>>, <<"U+01EF", <<"U+01EE">>>>, <<"U+01F0", <<"J","U+030C">>>>,
   <<"U+01F2", <<"U+01F1">>>>, <<"U+01F3", <<"U+01F1">>>>, <<"U+01F5", <<"U+01F4">>>>,
   <<"U+01F9", <<"U+01F8">>>>, <<"U+01FB", <<"U+01FA">>>>, <<"U+01FD", <<"U+01FC">>>>,
   <<"U+01FF", <<"U+01FE">>>>, <<"U+0201", <<"U+0200">>>>, <<"U+0203", <<"U+0202">>>>,
   <<"U+0205", <<"U+0204">>>>, <<"U+0207", <<"U+0206">>>>, <<"U+0209", <<"U+0208">>>>,
   <<"U+020B", <<"U+020A">>>>, <<"U+020D", <<"U+020C">>>>, <<"U+020F", <<"U+020E">>>>,
   <<"U+0211", <<"U+0210">>>>, <<"U+0213", <<"U+0212">>>>, <<"U+0215", <<"U+0214">>>>,
   <<"U+0217", <<"U+0216">>>>, <<"U+0219", <<"U+0218">>>>, <<"U+021B", <<"U+021A">>>>,
   <<"U+021D", <<"U+021C">>>>, <<"U+021F", <<"U+021E">>>>, <<"U+0223", <<"U+0222">>>>,
   <<"U+0225", <<"U+0224">>>>, <<"U+0227", <<"U+0226">>>>, <<"U+0229", <<"U+0228">>>>,
   <<"U+022B", <<"U+022A">>>>, <<"U+022D", <<"U+022C">>>>, <<"U+022F", <<"U+022E">>>>,
   <<"U+0231", <<"U+0230">>>>, <<"U+0233", <<"U+0232">>>>, <<"U+023C", <<"U+023B">>>>,
   <<"U+023F", <<"U+2C7E">>>>, <<"U+0240", <<"U+2C7F">>>>, <<"U+0242", <<"U+0241">>>>,
   <<"U+0247", <<"U+0246">>>>, <<"U+0249", <<"U+0248">>>>, <<"U+024B", <<"U+024A">>>>,
   <<"U+024D", <<"U+024C">>>>, <<"U+024F", <<"U+024E">>>>, <<"U+0250", <<"U+2C6F">>>>,
   <<"U+0251", <<"U+2C6D">>>>, <<"U+0252", <<"U+2C70">>>>, <<"U+0253", <<"U+0181">>>>,
   <<"U+0254", <<"U+0186">>>>, <<"U+0256", <<"U+0189">>>>, <<"U+0257", <<"U+018A">>>>,
   <<"U+0259", <<"U+018F">>>>, <<"U+025B", <<"U+0190">>>>, <<"U+025C", <<"U+A7AB">>>>,
   <<"U+0260", <<"U+0193">>>>, <<"U+0261", <<"U+A7AC">>>>, <<"U+0263", <<"U+0194">>>>,
   <<"U+0265", <<"U+A78D">>>>, <<"U+0266", <<"U+A7AA">>>>, <<"U+0268", <<"U+0197">>>>,
   <<"U+0269", <<"U+0196">>>>, <<"U+026A", <<"U+A7AE">>>>, <<"U+026B", <<"U+2C62">>>>,
   <<"U+026C", <<"U+A7AD">>>>, <<"U+026F", <<"U+019C">>>>, <<"U+0271", <<"U+2C6E">>>>,
   <<"U+0272", <<"U+019D">>>>, <<"U+0275", <<"U+019F">>>>, <<"U+027D", <<"U+2C64">>>>,
   <<"U+0280", <<"U+01A6">>>>, <<"U+0282", <<"U+A7C5">>>>, <<"U+0283", <<"U+01A9">>>>,
   <<"U+0287", <<"U+A7B1">>>>, <<"U+0288", <<"U+01AE">>>>, <<"U+0289", <<"U+0244">>>>,
   <<"U+028A", <<"U+01B1">>>>, <<"U+028B", <<"U+01B2">>>>, <<"U+028C", <<"U+0245">>>>,
   <<"U+0292", <<"U+01B7">>>>, <<"U+029D", <<"U+A7B2">>>>, <<"U+029E", <<"U+A7B0">>>>,
   <<"U+0345", <<"U+0399">>>>, <<"U+0371", <<"U+0370">>>>, <<"U+0373", <<"U+0372">>>>,
   <<"U+0377", <<"U+0376">>>>, <<"U+037B", <<"U+03FD">>>>, <<"U+037C", <<"U+03FE">>>>,
   <<"U+037D", <<"U+03FF">>>>, <<"U+0390", <<"U+0399","U+0308","U+0301">>>>,
   <<"U+03AC", <<"U+0386">>>>, <<"U+03AD", <<"U+0388">>>>, <<"U+03AE", <<"U+0389">>>>,
   <<"U+03AF", <<"U+038A">>>>, <<"U+03B0", <<"U+03A5","U+0308","U+0301">>>>,
   <<"U+03B1", <<"U+0391">>>>, <<"U+03B2", <<"U+0392">>>>, <<"U+03B3", <<"U+0393">>>>,
   <<"U+03B4", <<"U+0394">>>>, <<"U+03B5", <<"U+0395">>>>, <<"U+03B6", <<"U+0396">>>>,
   <<"U+03B7", <<"U+0397">>>>, <<"U+03B8", <<"U+0398">>>>, <<"U+03B9", <<"U+0399">>>>,
   <<"U+03BA", <<"U+039A">>>>, <<"U+03BB", <<"U+039B">>>>, <<"U+03BC", <<"U+039C">>>>,
   <<"U+03BD", <<"U+039D">>>>, <<"U+03BE", <<"U+039E">>>>, <<"U+03BF", <<"U+039F">>>>,
   <<"U+03C0", <<"U+03A0">>>>, <<"U+03C1", <<"U+03A1">>>>, <<"U+03C2", <<"U+03A3">>>>,
   <<"U+03C3", <<"U+03A3">>>>, <<"U+03C4", <<"U+03A4">>>>, <<"U+03C5", <<"U+03A5">>>>,
   <<"U+03C6", <<"U+03A6">>>>, <<"U+03C7", <<"U+03A7">>>>, <<"U+03C8", <<"U+03A8">>>>,
   <<"U+03C9", <<"U+03A9">>>>, <<"U+03CA", <<"U+03AA">>>>, <<"U+03CB", <<"U+03AB">>>>,
   <<"U+03CC", <<"U+038C">>>>, <<"U+03CD", <<"U+038E">>>>, <<"U+03CE", <<"U+038F">>>>,
   <<"U+03D0", <<"U+0392">>>>, <<"U+03D1", <<"U+0398">>>>, <<"U+03D5", <<"U+03A6">>>>,
   <<"U+03D6", <<"U+03A0">>>>, <<"U+03D7", <<"U+03CF">>>>, <<"U+03D9", <<"U+03D8">>>>,
   <<"U+03DB", <<"U+03DA">>>>, <<"U+03DD", <<"U+03DC">>>>, <<"U+03DF", <<"U+03DE">>>>,
   <<"U+03E1", <<"U+03E0">>>>, <<"U+03E3", <<"U+03E2">>>>, <<"U+03E5", <<"U+03E4">>>>,
   <<"U+03E7", <<"U+03E6">>>>, <<"U+03E9", <<"U+03E8">>>>, <<"U+03EB", <<"U+03EA">>>>,
   <<"U+03ED", <<"U+03EC">>>>, <<"U+03EF", <<"U+03EE">>>>, <<"U+03F0", <<"U+039A">>>>,
   <<"U+03F1", <<"U+03A1">>>>, <<"U+03F2", <<"U+03F9">>>>, <<"U+03F3", <<"U+037F">>>>,
   <<"U+03F5", <<"U+0395">>>>, <<"U+03F8", <<"U+03F7">>>>, <<"U+03FB", <<"U+03FA">>>>,
   <<"U+0430", <<"U+0410">>>>, <<"U+0431", <<"U+0411">>>>, <<"U+0432", <<"U+0412">>>>,
   <<"U+0433", <<"U+0413">>>>, <<"U+0434", <<"U+0414">>>>, <<"U+0435", <<"U+0415">>>>,
   <<"U+0436", <<"U+0416">>>>, <<"U+0437", <<"U+0417">>>>, <<"U+0438", <<"U+0418">>>>,
   <<"U+0439", <<"U+0419">>>>, <<"U+043A", <<"U+041A">>>>, <<"U+043B", <<"U+041B">>>>,
   <<"U+043C", <<"U+041C">>>>, <<"U+043D", <<"U+041D">>>>, <<"U+043E", <<"U+041E">>>>,
   <<"U+043F", <<"U+041F">>>>, <<"U+0440", <<"U+0420">>>>, <<"U+0441", <<"U+0421">>>>,
   <<"U+0442", <<"U+0422">>>>, <<"U+0443", <<"U+0423">>>>, <<"U+0444", <<"U+0424">>>>,
   <<"U+0445", <<"U+0425">>>>, <<"U+0446", <<"U+0426">>>>, <<"U+0447", <<"U+0427">>>>,
   <<"U+0448", <<"U+0428">>>>, <<"U+0449", <<"U+0429">>>>, <<"U+044A", <<"U+042A">>>>,
   <<"U+044B", <<"U+042B">>>>, <<"U+044C", <<"U+042C">>>>, <<"U+044D", <<"U+042D">>>>,
   <<"U+044E", <<"U+042E">>>>, <<"U+044F", <<"U+042F">>>>, <<"U+0450", <<"U+0400">>>>,
   <<"U+0451", <<"U+0401">>>>, <<"U+0452", <<"U+0402">>>>, <<"U+0453", <<"U+0403">>>>,
   <<"U+0454", <<"U+0404">>>>, <<"U+0455", <<"U+0405">>>>, <<"U+0456", <<"U+0406">>>>,
   <<"U+0457", <<"U+0407">>>>, <<"U+0458", <<"U+0408">>>>, <<"U+0459", <<"U+0409">>>>,
   <<"U+045A", <<"U+040A">>>>, <<"U+045B", <<"U+040B">>>>, <<"U+045C", <<"U+040C">>>>,
   <<"U+045D", <<"U+040D">>>>, <<"U+045E", <<"U+040E">>>>, <<"U+045F", <<"U+040F">>>>,
   <<"U+0461", <<"U+0460">>>>, <<"U+0463", <<"U+0462">>>>, <<"U+0465", <<"U+0464">>>>,
   <<"U+0467", <<"U+0466">>>>, <<"U+0469", <<"U+0468">>>>, <<"U+046B", <<"U+046A">>>>,
   <<"U+046D", <<"U+046C">>>>, <<"U+046F", <<"U+046E">>>>, <<"U+0471", <<"U+0470">>>>,
   <<"U+0473", <<"U+0472">>>>, <<"U+0475", <<"U+0474">>>>, <<"U+0477", <<"U+0476">>>>,
   <<"U+0479", <<"U+0478">>>>, <<"U+047B", <<"U+047A">>>>, <<"U+047D", <<"U+047C">>>>,
   <<"U+047F", <<"U+047E">>>>, <<"U+0481", <<"U+0480">>>>, <<"U+048B", <<"U+048A">>>>,
   <<"U+048D", <<"U+048C">>>>, <<"U+048F", <<"U+048E">>>>, <<"U+0491", <<"U+0490">>>>,
   <<"U+0493", <<"U+0492">>>>, <<"U+0495", <<"U+0494">>>>, <<"U+0497", <<"U+0496">>>>,
   <<"U+0499", <<"U+0498">>>>, <<"U+049B", <<"U+049A">>>>, <<"U+049D", <<"U+049C">>>>,
   <<"U+049F", <<"U+049E">>>>, <<"U+04A1", <<"U+04A0">>>>, <<"U+04A3", <<"U+04A2">>>>,
   <<"U+04A5", <<"U+04A4">>>>, <<"U+04A7", <<"U+04A6">>>>, <<"U+04A9", <<"U+04A8">>>>,
   <<"U+04AB", <<"U+04AA">>>>, <<"U+04AD", <<"U+04AC">>>>, <<"U+04AF", <<"U+04AE">>>>,
   <<"U+04B1", <<"U+04B0">>>>, <<"U+04B3", <<"U+04B2">>>>, <<"U+04B5", <<"U+04B4">>>>,
   <<"U+04B7", <<"U+04B6">>>>, <<"U+04B9", <<"U+04B8">>>>, <<"U+04BB", <<"U+04BA">>>>,
   <<"U+04BD", <<"U+04BC">>>>, <<"U+04BF", <<"U+04BE">>>>, <<"U+04C2", <<"U+04C1">>>>,
   <<"U+04C4", <<"U+04C3">>>>, <<"U+04C6", <<"U+04C5">>>>, <<"U+04C8", <<"U+04C7">>>>,
   <<"U+04CA", <<"U+04C9">>>>, <<"U+04CC", <<"U+04CB">>>>, <<"U+04CE", <<"U+04CD">>>>,
   <<"U+04CF", <<"U+04C0">>>>, <<"U+04D1", <<"U+04D0">>>>, <<"U+04D3", <<"U+04D2">>>>,
   <<"U+04D5", <<"U+04D4">>>>, <<"U+04D7", <<"U+04D6">>>>, <<"U+04D9", <<"U+04D8">>>>,
   <<"U+04DB", <<"U+04DA">>>>, <<"U+04DD", <<"U+04DC">>>>, <<"U+04DF", <<"U+04DE">>>>,
   <<"U+04E1", <<"U+04E0">>>>, <<"U+04E3", <<"U+04E2">>>>, <<"U+04E5", <<"U+04E4">>>>,
   <<"U+04E7", <<"U+04E6">>>>, <<"U+04E9", <<"U+04E8">>>>, <<"U+04EB", <<"U+04EA">>>>,
   <<"U+04ED", <<"U+04EC">>>>, <<"U+04EF", <<"U+04EE">>>>, <<"U+04F1", <<"U+04F0">>>>,
   <<"U+04F3", <<"U+04F2">>>>, <<"U+04F5", <<"U+04F4">>>>, <<"U+04F7", <<"U+04F6">>>>,
   <<"U+04F9", <<"U+04F8">>>>, <<"U+04FB", <<"U+04FA">>>>, <<"U+04FD", <<"U+04FC">>>>,
   <<"U+04FF", <<"U+04FE">>>>, <<"U+0501", <<"U+0500">>>>, <<"U+0503", <<"U+0502">>>>,
   <<"U+0505", <<"U+0504">>>>, <<"U+0507", <<"U+0506">>>>, <<"U+0509", <<"U+0508">>>>,
   <<"U+050B", <<"U+050A">>>>, <<"U+050D", <<"U+050C">>>>, <<"U+050F", <<"U+050E">>>>,
   <<"U+0511", <<"U+0510">>>>, <<"U+0513", <<"U+0512">>>>, <<"U+0515", <<"U+0514">>>>,
   <<"U+0517", <<"U+0516">>>>, <<"U+0519", <<"U+0518">>>>, <<"U+051B", <<"U+051A">>>>,
   <<"U+051D", <<"U+051C">>>>, <<"U+051F", <<"U+051E">>>>, <<"U+0521", <<"U+0520">>>>,
   <<"U+0523", <<"U+0522">>>>, <<"U+0525", <<"U+0524">>>>, <<"U+0527", <<"U+0526">>>>,
   <<"U+0529", <<"U+0528">>>>, <<"U+052B", <<"U+052A">>>>, <<"U+052D", <<"U+052C">>>>,
   <<"U+052F", <<"U+052E">>>>, <<"U+0561", <<"U+0531">>>>, <<"U+0562", <<"U+0532">>>>,
   <<"U+0563", <<"U+0533">>>>, <<"U+0564", <<"U+0534">>>>, <<"U+0565", <<"U+0535">>>>,
   <<"U+0566", <<"U+0536">>>>, <<"U+0567", <<"U+0537">>>>, <<"U+0568", <<"U+0538">>>>,
   <<"U+0569", <<"U+0539">>>>, <<"U+056A", <<"U+053A">>>>, <<"U+056B", <<"U+053B">>>>,
   <<"U+056C", <<"U+053C">>>>, <<"U+056D", <<"U+053D">>>>, <<"U+056E", <<"U+053E">>>>,
   <<"U+056F", <<"U+053F">>>>, <<"U+0570", <<"U+0540">>>>, <<"U+0571", <<"U+0541">>>>,
   <<"U+0572", <<"U+0542">>>>, <<"U+0573", <<"U+0543">>>>, <<"U+0574", <<"U+0544">>>>,
   <<"U+0575", <<"U+0545">>>>, <<"U+0576", <<"U+0546">>>>, <<"U+0577", <<"U+0547">>>>,
   <<"U+0578", <<"U+0548">>>>, <<"U+0579", <<"U+0549">>>>, <<"U+057A", <<"U+054A">>>>,
   <<"U+057B", <<"U+054B">>>>, <<"U+057C", <<"U+054C">>>>, <<"U+057D", <<"U+054D">>>>,
   <<"U+057E", <<"U+054E">>>>, <<"U+057F", <<"U+054F">>>>, <<"U+0580", <<"U+0550">>>>,
   <<"U+0581", <<"U+0551">>>>, <<"U+0582", <<"U+0552">>>>, <<"U+0583", <<"U+0553">>>>,
   <<"U+0584", <<"U+0554">>>>, <<"U+0585", <<"U+0555">>>>, <<"U+0586", <<"U+0556">>>>,
   <<"U+0587", <<"U+0535","U+0552">>>>, <<"U+10D0", <<"U+1C90">>>>, <<"U+10D1", <<"U+1C91">>>>,
   <<"U+10D2", <<"U+1C92">>>>, <<"U+10D3", <<"U+1C93">>>>, <<"U+10D4", <<"U+1C94">>>>,
   <<"U+10D5", <<"U+1C95">>>>, <<"U+10D6", <<"U+1C96">>>>, <<"U+10D7", <<"U+1C97">>>>,
   <<"U+10D8", <<"U+1C98">>>>, <<"U+10D9", <<"U+1C99">>>>, <<"U+10DA", <<"U+1C9A">>>>,
   <<"U+10DB", <<"U+1C9B">>>>, <<"U+10DC", <<"U+1C9C">>>>, <<"U+10DD", <<"U+1C9D">>>>,
   <<"U+10DE", <<"U+1C9E">>>>, <<"U+10DF", <<"U+1C9F">>>>, <<"U+10E0", <<"U+1CA0">>>>,
   <<"U+10E1", <<"U+1CA1">>>>, <<"U+10E2", <<"U+1CA2">>>>, <<"U+10E3", <<"U+1CA3">>>>,
   <<"U+10E4", <<"U+1CA4">>>>, <<"U+10E5", <<"U+1CA5">>>>, <<"U+10E6", <<"U+1CA6">>>>,
   <<"U+10E7", <<"U+1CA7">>>>, <<"U+10E8", <<"U+1CA8">>>>, <<"U+10E9", <<"U+1CA9">>>>,
   <<"U+10EA", <<"U+1CAA">>>>, <<"U+10EB", <<"U+1CAB">>>>, <<"U+10EC", <<"U+1CAC">>>>,
   <<"U+10ED", <<"U+1CAD">>>>, <<"U+10EE", <<"U+1CAE">>>>, <<"U+10EF", <<"U+1CAF">>>>,
   <<"U+10F0", <<"U+1CB0">>>>, <<"U+10F1", <<"U+1CB1">>>>, <<"U+10F2", <<"U+1CB2">>>>,
   <<"U+10F3", <<"U+1CB3">>>>, <<"U+10F4", <<"U+1CB4">>>>, <<"U+10F5", <<"U+1CB5">>>>,
   <<"U+10F6", <<"U+1CB6">>>>, <<"U+10F7", <<"U+1CB7">>>>, <<"U+10F8", <<"U+1CB8">>>>,
   <<"U+10F9", <<"U+1CB9">>>>, <<"U+10FA", <<"U+1CBA">>>>, <<"U+10FD", <<"U+1CBD">>>>,
   <<"U+10FE", <<"U+1CBE">>>>, <<"U+10FF", <<"U+1CBF">>>>, <<"U+13F8", <<"U+13F0">>>>,
   <<"U+13F9", <<"U+13F1">>>>, <<"U+13FA", <<"U+13F2">>>>, <<"U+13FB", <<"U+13F3">>>>,
   <<"U+13FC", <<"U+13F4">>>>, <<"U+13FD", <<"U+13F5">>>>, <<"U+1C80", <<"U+0412">>>>,
   <<"U+1C81", <<"U+0414">>>>, <<"U+1C82", <<"U+041E">>>>, <<"U+1C83", <<"U+0421">>>>,
   <<"U+1C84", <<"U+0422">>>>, <<"U+1C85", <<"U+0422">>>>, <<"U+1C86", <<"U+042A">>>>,
   <<"U+1C87", <<"U+0462">>>>, <<"U+1C88", <<"U+A64A">>>>, <<"U+1D79", <<"U+A77D">>>>,
   <<"U+1D7D", <<"U+2C63">>>>, <<"U+1D8E", <<"U+A7C6">>>>, <<"U+1E01", <<"U+1E00">>>>,
   <<"U+1E03", <<"U+1E02">>>>, <<"U+1E05", <<"U+1E04">>>>, <<"U+1E07", <<"U+1E06">>>>,
   <<"U+1E09", <<"U+1E08">>>>, <<"U+1E0B", <<"U+1E0A">>>>, <<"U+1E0D", <<"U+1E0C">>>>,
   <<"U+1E0F", <<"U+1E0E">>>>, <<"U+1E11", <<"U+1E10">>>>, <<"U+1E13", <<"U+1E12">>>>,
   <<"U+1E15", <<"U+1E14">>>>, <<"U+1E17", <<"U+1E16">>>>, <<"U+1E19", <<"U+1E18">>>>,
   <<"U+1E1B", <<"U+1E1A">>>>, <<"U+1E1D", <<"U+1E1C">>>>, <<"U+1E1F", <<"U+1E1E">>>>,
   <<"U+1E21", <<"U+1E20">>>>, <<"U+1E23", <<"U+1E22">>>>, <<"U+1E25", <<"U+1E24">>>>,
   <<"U+1E27", <<"U+1E26">>>>, <<"U+1E29", <<"U+1E28">>>>, <<"U+1E2B", <<"U+1E2A">>>>,
   <<"U+1E2D", <<"U+1E2C">>>>, <<"U+1E2F", <<"U+1E2E">>>>, <<"U+1E31", <<"U+1E30">>>>,
   <<"U+1E33", <<"U+1E32">>>>, <<"U+1E35", <<"U+1E34">>>>, <<"U+1E37", <<"U+1E36">>>>,
   <<"U+1E39", <<"U+1E38">>>>, <<"U+1E3B", <<"U+1E3A">>>>, <<"U+1E3D", <<"U+1E3C">>>>,
   <<"U+1E3F", <<"U+1E3E">>>>, <<"U+1E41", <<"U+1E40">>>>, <<"U+1E43", <<"U+1E42">>>>,
   <<"U+1E45", <<"U+1E44">>>>, <<"U+1E47", <<"U+1E46">>>>, <<"U+1E49", <<"U+1E48">>>>,
   <<"U+1E4B", <<"U+1E4A">>>>, <<"U+1E4D", <<"U+1E4C">>>>, <<"U+1E4F", <<"U+1E4E">>>>,
   <<"U+1E51", <<"U+1E50">>>>, <<"U+1E53", <<"U+1E52">>>>, <<"U+1E55", <<"U+1E54">>>>,
   <<"U+1E57", <<"U+1E56">>>>, <<"U+1E59", <<"U+1E58">>>>, <<"U+1E5B", <<"U+1E5A">>>>,
   <<"U+1E5D", <<"U+1E5C">>>>, <<"U+1E5F", <<"U+1E5E">>>>, <<"U+1E61", <<"U+1E60">>>>,
   <<"U+1E63", <<"U+1E62">>>>, <<"U+1E65", <<"U+1E64">>>>, <<"U+1E67", <<"U+1E66">>>>,
   <<"U+1E69", <<"U+1E68">>>>, <<"U+1E6B", <<"U+1E6A">>>>, <<"U+1E6D", <<"U+1E6C">>>>,
   <<"U+1E6F", <<"U+1E6E">>>>, <<"U+1E71", <<"U+1E70">>>>, <<"U+1E73", <<"U+1E72">>>>,
   <<"U+1E75", <<"U+1E74">>>>, <<"U+1E77", <<"U+1E76">>>>, <<"U+1E79", <<"U+1E78">>>>,
   <<"U+1E7B", <<"U+1E7A">>>>, <<"U+1E7D", <<"U+1E7C">>>>, <<"U+1E7F", <<"U+1E7E">>>>,
   <<"U+1E81", <<"U+1E80">>>>, <<"U+1E83", <<"U+1E82">>>>, <<"U+1E85", <<"U+1E84">>>>,
   <<"U+1E87", <<"U+1E86">>>>, <<"U+1E89", <<"U+1E88">>>>, <<"U+1E8B", <<"U+1E8A">>>>,
   <<"U+1E8D", <<"U+1E8C">>>>, <<"U+1E8F", <<"U+1E8E">>>>, <<"U+1E91", <<"U+1E90">>>>,
   <<"U+1E93", <<"U+1E92">>>>, <<"U+1E95", <<"U+1E94">>>>, <<"U+1E96", <<"H","U+0331">>>>,
   <<"U+1E97", <<"T","U+0308">>>>, <<"U+1E98", <<"W","U+030A">>>>,
   <<"U+1E99", <<"Y","U+030A">>>>, <<"U+1E9A", <<"A","U+02BE">>>>, <<"U+1E9B", <<"U+1E60">>>>,
   <<"U+1EA1", <<"U+1EA0">>>>, <<"U+1EA3", <<"U+1EA2">>>>, <<"U+1EA5", <<"U+1EA4">>>>,
   <<"U+1EA7", <<"U+1EA6">>>>, <<"U+1EA9", <<"U+1EA8">>>>, <<"U+1EAB", <<"U+1EAA">>>>,
   <<"U+1EAD", <<"U+1EAC">>>>, <<"U+1EAF", <<"U+1EAE">>>>, <<"U+1EB1", <<"U+1EB0">>>>,
   <<"U+1EB3", <<"U+1EB2">>>>, <<"U+1EB5", <<"U+1EB4">>>>, <<"U+1EB7", <<"U+1EB6">>>>,
   <<"U+1EB9", <<"U+1EB8">>>>, <<"U+1EBB", <<"U+1EBA">>>>, <<"U+1EBD", <<"U+1EBC">>>>,
   <<"U+1EBF", <<"U+1EBE">>>>, <<"U+1EC1", <<"U+1EC0">>>>, <<"U+1EC3", <<"U+1EC2">>>>,
   <<"U+1EC5", <<"U+1EC4">>>>, <<"U+1EC7", <<"U+1EC6">>>>, <<"U+1EC9", <<"U+1EC8">>>>,
   <<"U+1ECB", <<"U+1ECA">>>>, <<"U+1ECD", <<"U+1ECC">>>>, <<"U+1ECF", <<"U+1ECE">>>>,
   <<"U+1ED1", <<"U+1ED0">>>>, <<"U+1ED3", <<"U+1ED2">>>>, <<"U+1ED5", <<"U+1ED4">>>>,
   <<"U+1ED7", <<"U+1ED6">>>>, <<"U+1ED9", <<"U+1ED8">>>>, <<"U+1EDB", <<"U+1EDA">>>>,
   <<"U+1EDD", <<"U+1EDC">>>>, <<"U+1EDF", <<"U+1EDE">>>>, <<"U+1EE1", <<"U+1EE0">>>>,
   <<"U+1EE3", <<"U+1EE2">>>>, <<"U+1EE5", <<"U+1EE4">>>>, <<"U+1EE7", <<"U+1EE6">>>>,
   <<"U+1EE9", <<"U+1EE8">>>>, <<"U+1EEB", <<"U+1EEA">>>>, <<"U+1EED", <<"U+1EEC">>>>,
   <<"U+1EEF", <<"U+1EEE">>>>, <<"U+1EF1", <<"U+1EF0">>>>, <<"U+1EF3", <<"U+1EF2">>>>,
   <<"U+1EF5", <<"U+1EF4">>>>, <<"U+1EF7", <<"U+1EF6">>>>, <<"U+1EF9", <<"U+1EF8">>>>,
   <<"U+1EFB", <<"U+1EFA">>>>, <<"U+1EFD", <<"U+1EFC">>>>, <<"U+1EFF", <<"U+1EFE">>>>,
   <<"U+1F00", <<"U+1F08">>>>, <<"U+1F01", <<"U+1F09">>>>, <<"U+1F02", <<"U+1F0A">>>>,
   <<"U+1F03", <<"U+1F0B">>>>, <<"U+1F04", <<"U+1F0C">>>>, <<"U+1F05", <<"U+1F0D">>>>,
   <<"U+1F06", <<"U+1F0E">>>>, <<"U+1F07", <<"U+1F0F">>>>, <<"U+1F10", <<"U+1F18">>>>,
   <<"U+1F11", <<"U+1F19">>>>, <<"U+1F12", <<"U+1F1A">>>>, <<"U+1F13", <<"U+1F1B">>>>,
   <<"U+1F14", <<"U+1F1C">>>>, <<"U+1F15", <<"U+1F1D">>>>, <<"U+1F20", <<"U+1F28">>>>,
   <<"U+1F21", <<"U+1F29">>>>, <<"U+1F22", <<"U+1F2A">>>>, <<"U+1F23", <<"U+1F2B">>>>,
   <<"U+1F24", <<"U+1F2C">>>>, <<"U+1F25", <<"U+1F2D">>>>, <<"U+1F26", <<"U+1F2E">>>>,
   <<"U+1F27", <<"U+1F2F">>>>, <<"U+1F30", <<"U+1F38">>>>, <<"U+1F31", <<"U+1F39">>>>,
   <<"U+1F32", <<"U+1F3A">>>>, <<"U+1F33", <<"U+1F3B">>>>, <<"U+1F34", <<"U+1F3C">>>>,
   <<"U+1F35", <<"U+1F3D">>>>, <<"U+1F36", <<"U+1F3E">>>>, <<"U+1F37", <<"U+1F3F">>>>,
   <<"U+1F40", <<"U+1F48">>>>, <<"U+1F41", <<"U+1F49">>>>, <<"U+1F42", <<"U+1F4A">>>>,
   <<"U+1F43", <<"U+1F4B">>>>, <<"U+1F44", <<"U+1F4C">>>>, <<"U+1F45", <<"U+1F4D">>>>,
   <<"U+1F50", <<"U+03A5","U+0313">>>>, <<"U+1F51", <<"U+1F59">>>>,
   <<"U+1F52", <<"U+03A5","U+0313","U+0300">>>>, <<"U+1F53", <<"U+1F5B">>>>,
   <<"U+1F54", <<"U+03A5","U+0313","U+0301">>>>, <<"U+1F55", <<"U+1F5D">>>>,
   <<"U+1F56", <<"U+03A5","U+0313","U+0342">>>>, <<"U+1F57", <<"U+1F5F">>>>,
   <<"U+1F60", <<"U+1F68">>>>, <<"U+1F61", <<"U+1F69">>>>, <<"U+1F62", <<"U+1F6A">>>>,
   <<"U+1F63", <<"U+1F6B">>>>, <<"U+1F64", <<"U+1F6C">>>>, <<"U+1F65", <<"U+1F6D">>>>,
   <<"U+1F66", <<"U+1F6E">>>>, <<"U+1F67", <<"U+1F6F">>>>, <<"U+1F70", <<"U+1FBA">>>>,
   <<"U+1F71", <<"U+1FBB">>>>, <<"U+1F72", <<"U+1FC8">>>>, <<"U+1F73", <<"U+1FC9">>>>,
   <<"U+1F74", <<"U+1FCA">>>>, <<"U+1F75", <<"U+1FCB">>>>, <<"U+1F76", <<"U+1FDA">>>>,
   <<"U+1F77", <<"U+1FDB">>>>, <<"U+1F78", <<"U+1FF8">>>>, <<"U+1F79", <<"U+1FF9">>>>,
   <<"U+1F7A", <<"U+1FEA">>>>, <<"U+1F7B", <<"U+1FEB">>>>, <<"U+1F7C", <<"U+1FFA">>>>,
   <<"U+1F7D", <<"U+1FFB">>>>, <<"U+1F80", <<"U+1F08","U+0399">>>>,
   <<"U+1F81", <<"U+1F09","U+0399">>>>, <<"U+1F82", <<"U+1F0A","U+0399">>>>,
   <<"U+1F83", <<"U+1F0B","U+0399">>>>, <<"U+1F84", <<"U+1F0C","U+0399">>>>,
   <<"U+1F85", <<"U+1F0D","U+0399">>>>, <<"U+1F86", <<"U+1F0E","U+0399">>>>,
   <<"U+1F87", <<"U+1F0F","U+0399">>>>, <<"U+1F88", <<"U+1F08","U+0399">>>>,
   <<"U+1F89", <<"U+1F09","U+0399">>>>, <<"U+1F8A", <<"U+1F0A","U+0399">>>>,
   <<"U+1F8B", <<"U+1F0B","U+0399">>>>, <<"U+1F8C", <<"U+1F0C","U+0399">>>>,
   <<"U+1F8D", <<"U+1F0D","U+0399">>>>, <<"U+1F8E", <<"U+1F0E","U+0399">>>>,
   <<"U+1F8F", <<"U+1F0F","U+0399">>>>, <<"U+1F90", <<"U+1F28","U+0399">>>>,
   <<"U+1F91", <<"U+1F29","U+0399">>>>, <<"U+1F92", <<"U+1F2A","U+0399">>>>,
   <<"U+1F93", <<"U+1F2B","U+0399">>>>, <<"U+1F94", <<"U+1F2C","U+0399">>>>,
   <<"U+1F95", <<"U+1F2D","U+0399">>>>, <<"U+1F96", <<"U+1F2E","U+0399">>>>,
   <<"U+1F97", <<"U+1F2F","U+0399">>>>, <<"U+1F98", <<"U+1F28","U+0399">>>>,
   <<"U+1F99", <<"U+1F29","U+0399">>>>, <<"U+1F9A", <<"U+1F2A","U+0399">>>>,
   <<"U+1F9B", <<"U+1F2B","U+0399">>>>, <<"U+1F9C", <<"U+1F2C","U+0399">>>>,
   <<"U+1F9D", <<"U+1F2D","U+0399">>>>, <<"U+1F9E", <<"U+1F2E","U+0399">>>>,
   <<"U+1F9F", <<"U+1F2F","U+0399">>>>, <<"U+1FA0", <<"U+1F68","U+0399">>>>,
   <<"U+1FA1", <<"U+1F69","U+0399">>>>, <<"U+1FA2", <<"U+1F6A","U+0399">>>>,
   <<"U+1FA3", <<"U+1F6B","U+0399">>>>, <<"U+1FA4", <<"U+1F6C","U+0399">>>>,
   <<"U+1FA5", <<"U+1F6D","U+0399">>>>, <<"U+1FA6", <<"U+1F6E","U+0399">>>>,
   <<"U+1FA7", <<"U+1F6F","U+0399">>>>, <<"U+1FA8", <<"U+1F68","U+0399">>>>,
   <<"U+1FA9", <<"U+1F69","U+0399">>>>, <<"U+1FAA", <<"U+1F6A","U+0399">>>>,
   <<"U+1FAB", <<"U+1F6B","U+0399">>>>, <<"U+1FAC", <<"U+1F6C","U+0399">>>>,
   <<"U+1FAD", <<"U+1F6D","U+0399">>>>, <<"U+1FAE", <<"U+1F6E","U+0399">>>>,
   <<"U+1FAF", <<"U+1F6F","U+0399">>>>, <<"U+1FB0", <<"U+1FB8">>>>, <<"U+1FB1", <<"U+1FB9">>>>,
   <<"U+1FB2", <<"U+1FBA","U+0399">>>>, <<"U+1FB3", <<"U+0391","U+0399">>>>,
   <<"U+1FB4", <<"U+0386","U+0399">>>>, <<"U+1FB6", <<"U+0391","U+0342">>>>,
   <<"U+1FB7", <<"U+0391","U+0342","U+0399">>>>, <<"U+1FBC", <<"U+0391","U+0399">>>>,
   <<"U+1FBE", <<"U+0399">>>>, <<"U+1FC2", <<"U+1FCA","U+0399">>>>,
   <<"U+1FC3", <<"U+0397","U+0399">>>>, <<"U+1FC4", <<"U+0389","U+0399">>>>,
   <<"U+1FC6", <<"U+0397","U+0342">>>>, <<"U+1FC7", <<"U+0397","U+0342","U+0399">>>>,
   <<"U+1FCC", <<"U+0397","U+0399">>>>, <<"U+1FD0", <<"U+1FD8">>>>, <<"U+1FD1", <<"U+1FD9">>>>,
   <<"U+1FD2", <<"U+0399","U+0308","U+0300">>>>, <<"U+1FD3", <<"U+0399","U+0308","U+0301">>>>,
   <<"U+1FD6", <<"U+0399","U+0342">>>>, <<"U+1FD7", <<"U+0399","U+0308","U+0342">>>>,
   <<"U+1FE0", <<"U+1FE8">>>>, <<"U+1FE1", <<"U+1FE9">>>>,
   <<"U+1FE2", <<"U+03A5","U+0308","U+0300">>>>, <<"U+1FE3", <<"U+03A5","U+0308","U+0301">>>>,
   <<"U+1FE4", <<"U+03A1","U+0313">>>>, <<"U+1FE5", <<"U+1FEC">>>>,
   <<"U+1FE6", <<"U+03A5","U+0342">>>>, <<"U+1FE7", <<"U+03A5","U+0308","U+0342">>>>,
   <<"U+1FF2", <<"U+1FFA","U+0399">>>>, <<"U+1FF3", <<"U+03A9","U+0399">>>>,
   <<"U+1FF4", <<"U+038F","U+0399">>>>, <<"U+1FF6", <<"U+03A9","U+0342">>>>,
   <<"U+1FF7", <<"U+03A9","U+0342","U+0399">>>>, <<"U+1FFC", <<"U+03A9","U+0399">>>>,
   <<"U+214E", <<"U+2132">>>>, <<"U+2170", <<"U+2160">>>>, <<"U+2171", <<"U+2161">>>>,
   <<"U+2172", <<"U+2162">>>>, <<"U+2173", <<"U+2163">>>>, <<"U+2174", <<"U+2164">>>>,
   <<"U+2175", <<"U+2165">>>>, <<"U+2176", <<"U+2166">>>>, <<"U+2177", <<"U+2167">>>>,
   <<"U+2178", <<"U+2168">>>>, <<"U+2179", <<"U+2169">>>>, <<"U+217A", <<"U+216A">>>>,
   <<"U+217B", <<"U+216B">>>>, <<"U+217C", <<"U+216C">>>>, <<"U+217D", <<"U+216D">>>>,
   <<"U+217E", <<"U+216E">>>>, <<"U+217F", <<"U+216F">>>>, <<"U+2184", <<"U+2183">>>>,
   <<"U+24D0", <<"U+24B6">>>>, <<"U+24D1", <<"U+24B7">>>>, <<"U+24D2", <<"U+24B8">>>>,
   <<"U+24D3", <<"U+24B9">>>>, <<"U+24D4", <<"U+24BA">>>>, <<"U+24D5", <<"U+24BB">>>>,
   <<"U+24D6", <<"U+24BC">>>>, <<"U+24D7", <<"U+24BD">>>>, <<"U+24D8", <<"U+24BE">>>>,
   <<"U+24D9", <<"U+24BF">>>>, <<"U+24DA", <<"U+24C0">>>>, <<"U+24DB", <<"U+24C1">>>>,
   <<"U+24DC", <<"U+24C2">>>>, <<"U+24DD", <<"U+24C3">>>>, <<"U+24DE", <<"U+24C4">>>>,
   <<"U+24DF", <<"U+24C5">>>>, <<"U+24E0", <<"U+24C6">>>>, <<"U+24E1", <<"U+24C7">>>>,
   <<"U+24E2", <<"U+24C8">>>>, <<"U+24E3", <<"U+24C9">>>>, <<"U+24E4", <<"U+24CA">>>>,
   <<"U+24E5", <<"U+24CB">>>>, <<"U+24E6", <<"U+24CC">>>>, <<"U+24E7", <<"U+24CD">>>>,
   <<"U+24E8", <<"U+24CE">>>>, <<"U+24E9", <<"U+24CF">>>>, <<"U+2C30", <<"U+2C00">>>>,
   <<"U+2C31", <<"U+2C01">>>>, <<"U+2C32", <<"U+2C02">>>>, <<"U+2C33", <<"U+2C03">>>>,
   <<"U+2C34", <<"U+2C04">>>>, <<"U+2C35", <<"U+2C05">>>>, <<"U+2C36", <<"U+2C06">>>>,
   <<"U+2C37", <<"U+2C07">>>>, <<"U+2C38", <<"U+2C08">>>>, <<"U+2C39", <<"U+2C09">>>>,
   <<"U+2C3A", <<"U+2C0A">>>>, <<"U+2C3B", <<"U+2C0B">>>>, <<"U+2C3C", <<"U+2C0C">>>>,
   <<"U+2C3D", <<"U+2C0D">>>>, <<"U+2C3E", <<"U+2C0E">>>>, <<"U+2C3F", <<"U+2C0F">>>>,
   <<"U+2C40", <<"U+2C10">>>>, <<"U+2C41", <<"U+2C11">>>>, <<"U+2C42", <<"U+2C12">>>>,
   <<"U+2C43", <<"U+2C13">>>>, <<"U+2C44", <<"U+2C14">>>>, <<"U+2C45", <<"U+2C15">>>>,
   <<"U+2C46", <<"U+2C16">>>>, <<"U+2C47", <<"U+2C17">>>>, <<"U+2C48", <<"U+2C18">>>>,
   <<"U+2C49", <<"U+2C19">>>>, <<"U+2C4A", <<"U+2C1A">>>>, <<"U+2C4B", <<"U+2C1B">>>>,
   <<"U+2C4C", <<"U+2C1C">>>>, <<"U+2C4D", <<"U+2C1D">>>>, <<"U+2C4E", <<"U+2C1E">>>>,
   <<"U+2C4F", <<"U+2C1F">>>>, <<"U+2C50", <<"U+2C20">>>>, <<"U+2C51", <<"U+2C21">>>>,
   <<"U+2C52", <<"U+2C22">>>>, <<"U+2C53", <<"U+2C23">>>>, <<"U+2C54", <<"U+2C24">>>>,
   <<"U+2C55", <<"U+2C25">>>>, <<"U+2C56", <<"U+2C26">>>>, <<"U+2C57", <<"U+2C27">>>>,
   <<"U+2C58", <<"U+2C28">>>>, <<"U+2C59", <<"U+2C29">>>>, <<"U+2C5A", <<"U+2C2A">>>>,
   <<"U+2C5B", <<"U+2C2B">>>>, <<"U+2C5C", <<"U+2C2C">>>>, <<"U+2C5D", <<"U+2C2D">>>>,
   <<"U+2C5E", <<"U+2C2E">>>>, <<"U+2C5F", <<"U+2C2F">>>>, <<"U+2C61", <<"U+2C60">>>>,
   <<"U+2C65", <<"U+023A">>>>, <<"U+2C66", <<"U+023E">>>>, <<"U+2C68", <<"U+2C67">>>>,
   <<"U+2C6A", <<"U+2C69">>>>, <<"U+2C6C", <<"U+2C6B">>>>, <<"U+2C73", <<"U+2C72">>>>,
   <<"U+2C76", <<"U+2C75">>>>, <<"U+2C81", <<"U+2C80">>>>, <<"U+2C83", <<"U+2C82">>>>,
   <<"U+2C85", <<"U+2C84">>>>, <<"U+2C87", <<"U+2C86">>>>, <<"U+2C89", <<"U+2C88">>>>,
   <<"U+2C8B", <<"U+2C8A">>>>, <<"U+2C8D", <<"U+2C8C">>>>, <<"U+2C8F", <<"U+2C8E">>>>,
   <<"U+2C91", <<"U+2C90">>>>, <<"U+2C93", <<"U+2C92">>>>, <<"U+2C95", <<"U+2C94">>>>,
   <<"U+2C97", <<"U+2C96">>>>, <<"U+2C99", <<"U+2C98">>>>, <<"U+2C9B", <<"U+2C9A">>>>,
   <<"U+2C9D", <<"U+2C9C">>>>, <<"U+2C9F", <<"U+2C9E">>>>, <<"U+2CA1", <<"U+2CA0">>>>,
   <<"U+2CA3", <<"U+2CA2">>>>, <<"U+2CA5", <<"U+2CA4">>>>, <<"U+2CA7", <<"U+2CA6">>>>,
   <<"U+2CA9", <<"U+2CA8">>>>, <<"U+2CAB", <<"U+2CAA">>>>, <<"U+2CAD", <<"U+2CAC">>>>,
   <<"U+2CAF", <<"U+2CAE">>>>, <<"U+2CB1", <<"U+2CB0">>>>, <<"U+2CB3", <<"U+2CB2">>>>,
   <<"U+2CB5", <<"U+2CB4">>>>, <<"U+2CB7", <<"U+2CB6">>>>, <<"U+2CB9", <<"U+2CB8">>>>,
   <<"U+2CBB", <<"U+2CBA">>>>, <<"U+2CBD", <<"U+2CBC">>>>, <<"U+2CBF", <<"U+2CBE">>>>,
   <<"U+2CC1", <<"U+2CC0">>>>, <<"U+2CC3", <<"U+2CC2">>>>, <<"U+2CC5", <<"U+2CC4">>>>,
   <<"U+2CC7", <<"U+2CC6">>>>, <<"U+2CC9", <<"U+2CC8">>>>, <<"U+2CCB", <<"U+2CCA">>>>,
   <<"U+2CCD", <<"U+2CCC">>>>, <<"U+2CCF", <<"U+2CCE">>>>, <<"U+2CD1", <<"U+2CD0">>>>,
   <<"U+2CD3", <<"U+2CD2">>>>, <<"U+2CD5", <<"U+2CD4">>>>, <<"U+2CD7", <<"U+2CD6">>>>,
   <<"U+2CD9", <<"U+2CD8">>>>, <<"U+2CDB", <<"U+2CDA">>>>, <<"U+2CDD", <<"U+2CDC">>>>,
   <<"U+2CDF", <<"U+2CDE">>>>, <<"U+2CE1", <<"U+2CE0">>>>, <<"U+2CE3", <<"U+2CE2">>>>,
   <<"U+2CEC", <<"U+2CEB">>>>, <<"U+2CEE", <<"U+2CED">>>>, <<"U+2CF3", <<"U+2CF2">>>>,
   <<"U+2D00", <<"U+10A0">>>>, <<"U+2D01", <<"U+10A1">>>>, <<"U+2D02", <<"U+10A2">>>>,
   <<"U+2D03", <<"U+10A3">>>>, <<"U+2D04", <<"U+10A4">>>>, <<"U+2D05", <<"U+10A5">>>>,
   <<"U+2D06", <<"U+10A6">>>>, <<"U+2D07", <<"U+10A7">>>>, <<"U+2D08", <<"U+10A8">>>>,
   <<"U+2D09", <<"U+10A9">>>>, <<"U+2D0A", <<"U+10AA">>>>, <<"U+2D0B", <<"U+10AB">>>>,
   <<"U+2D0C", <<"U+10AC">>>>, <<"U+2D0D", <<"U+10AD">>>>, <<"U+2D0E", <<"U+10AE">>>>,
   <<"U+2D0F", <<"U+10AF">>>>, <<"U+2D10", <<"U+10B0">>>>, <<"U+2D11", <<"U+10B1">>>>,
   <<"U+2D12", <<"U+10B2">>>>, <<"U+2D13", <<"U+10B3">>>>, <<"U+2D14", <<"U+10B4">>>>,
   <<"U+2D15", <<"U+10B5">>>>, <<"U+2D16", <<"U+10B6">>>>, <<"U+2D17", <<"U+10B7">>>>,
   <<"U+2D18", <<"U+10B8">>>>, <<"U+2D19", <<"U+10B9">>>>, <<"U+2D1A", <<"U+10BA">>>>,
   <<"U+2D1B", <<"U+10BB">>>>, <<"U+2D1C", <<"U+10BC">>>>, <<"U+2D1D", <<"U+10BD">>>>,
   <<"U+2D1E", <<"U+10BE">>>>, <<"U+2D1F", <<"U+10BF">>>>, <<"U+2D20", <<"U+10C0">>>>,
   <<"U+2D21", <<"U+10C1">>>>, <<"U+2D22", <<"U+10C2">>>>, <<"U+2D23", <<"U+10C3">>>>,
   <<"U+2D24", <<"U+10C4">>>>, <<"U+2D25", <<"U+10C5">>>>, <<"U+2D27", <<"U+10C7">>>>,
   <<"U+2D2D", <<"U+10CD">>>>, <<"U+A641", <<"U+A640">>>>, <<"U+A643", <<"U+A642">>>>,
   <<"U+A645", <<"U+A644">>>>, <<"U+A647", <<"U+A646">>>>, <<"U+A649", <<"U+A648">>>>,
   <<"U+A64B", <<"U+A64A">>>>, <<"U+A64D", <<"U+A64C">>>>, <<"U+A64F", <<"U+A64E">>>>,
   <<"U+A651", <<"U+A650">>>>, <<"U+A653", <<"U+A652">>>>, <<"U+A655", <<"U+A654">>>>,
   <<"U+A657", <<"U+A656">>>>, <<"U+A659", <<"U+A658">>>>, <<"U+A65B", <<"U+A65A">>>>,
   <<"U+A65D", <<"U+A65C">>>>, <<"U+A65F", <<"U+A65E">>>>, <<"U+A661", <<"U+A660">>>>,
   <<"U+A663", <<"U+A662">>>>, <<"U+A665", <<"U+A664">>>>, <<"U+A667", <<"U+A666">>>>,
   <<"U+A669", <<"U+A668">>>>, <<"U+A66B", <<"U+A66A">>>>, <<"U+A66D", <<"U+A66C">>>>,
   <<"U+A681", <<"U+A680">>>>, <<"U+A683", <<"U+A682">>>>, <<"U+A685", <<"U+A684">>>>,
   <<"U+A687", <<"U+A686">>>>, <<"U+A689", <<"U+A688">>>>, <<"U+A68B", <<"U+A68A">>>>,
   <<"U+A68D", <<"U+A68C">>>>, <<"U+A68F", <<"U+A68E">>>>, <<"U+A691", <<"U+A690">>>>,
   <<"U+A693", <<"U+A692">>>>, <<"U+A695", <<"U+A694">>>>, <<"U+A697", <<"U+A696">>>>,
   <<"U+A699", <<"U+A698">>>>, <<"U+A69B", <<"U+A69A">>>>, <<"U+A723", <<"U+A722">>>>,
   <<"U+A725", <<"U+A724">>>>, <<"U+A727", <<"U+A726">>>>, <<"U+A729", <<"U+A728">>>>,
   <<"U+A72B", <<"U+A72A">>>>, <<"U+A72D", <<"U+A72C">>>>, <<"U+A72F", <<"U+A72E">>>>,
   <<"U+A733", <<"U+A732">>>>, <<"U+A735", <<"U+A734">>>>, <<"U+A737", <<"U+A736">>>>,
   <<"U+A739", <<"U+A738">>>>, <<"U+A73B", <<"U+A73A">>>>, <<"U+A73D", <<"U+A73C">>>>,
   <<"U+A73F", <<"U+A73E">>>>, <<"U+A741", <<"U+A740">>>>, <<"U+A743", <<"U+A742">>>>,
   <<"U+A745", <<"U+A744">>>>, <<"U+A747", <<"U+A746">>>>, <<"U+A749", <<"U+A748">>>>,
   <<"U+A74B", <<"U+A74A">>>>, <<"U+A74D", <<"U+A74C">>>>, <<"U+A74F", <<"U+A74E">>>>,
   <<"U+A751", <<"U+A750">>>>, <<"U+A753", <<"U+A752">>>>, <<"U+A755", <<"U+A754">>>>,
   <<"U+A757", <<"U+A756">>>>, <<"U+A759", <<"U+A758">>>>, <<"U+A75B", <<"U+A75A">>>>,
   <<"U+A75D", <<"U+A75C">>>>, <<"U+A75F", <<"U+A75E">>>>, <<"U+A761", <<"U+A760">>>>,
   <<"U+A763", <<"U+A762">>>>, <<"U+A765", <<"U+A764">>>>, <<"U+A767", <<"U+A766">>>>,
   <<"U+A769", <<"U+A768">>>>, <<"U+A76B", <<"U+A76A">>>>, <<"U+A76D", <<"U+A76C">>>>,
   <<"U+A76F", <<"U+A76E">>>>, <<"U+A77A", <<"U+A779">>>>, <<"U+A77C", <<"U+A77B">>>>,
   <<"U+A77F", <<"U+A77E">>>>, <<"U+A781", <<"U+A780">>>>, <<"U+A783", <<"U+A782">>>>,
   <<"U+A785", <<"U+A784">>>>, <<"U+A787", <<"U+A786">>>>, <<"U+A78C", <<"U+A78B">>>>,
   <<"U+A791", <<"U+A790">>>>, <<"U+A793", <<"U+A792">>>>, <<"U+A794", <<"U+A7C4">>>>,
   <<"U+A797", <<"U+A796">>>>, <<"U+A799", <<"U+A798">>>>, <<"U+A79B", <<"U+A79A">>>>,
   <<"U+A79D", <<"U+A79C">>>>, <<"U+A79F", <<"U+A79E">>>>, <<"U+A7A1", <<"U+A7A0">>>>,
   <<"U+A7A3", <<"U+A7A2">>>>, <<"U+A7A5", <<"U+A7A4">>>>, <<"U+A7A7", <<"U+A7A6">>>>,
   <<"U+A7A9", <<"U+A7A8">>>>, <<"U+A7B5", <<"U+A7B4">>>>, <<"U+A7B7", <<"U+A7B6">>>>,
   <<"U+A7B9", <<"U+A7B8">>>>, <<"U+A7BB", <<"U+A7BA">>>>, <<"U+A7BD", <<"U+A7BC">>>>,
   <<"U+A7BF", <<"U+A7BE">>>>, <<"U+A7C1", <<"U+A7C0">>>>, <<"U+A7C3", <<"U+A7C2">>>>,
   <<"U+A7C8", <<"U+A7C7">>>>, <<"U+A7CA", <<"U+A7C9">>>>, <<"U+A7D1", <<"U+A7D0">>>>,
   <<"U+A7D7", <<"U+A7D6">>>>, <<"U+A7D9", <<"U+A7D8">>>>, <<"U+A7F6", <<"U+A7F5">>>>,
   <<"U+AB53", <<"U+A7B3">>>>, <<"U+AB70", <<"U+13A0">>>>, <<"U+AB71", <<"U+13A1">>>>,
   <<"U+AB72", <<"U+13A2">>>>, <<"U+AB73", <<"U+13A3">>>>, <<"U+AB74", <<"U+13A4">>>>,
   <<"U+AB75", <<"U+13A5">>>>, <<"U+AB76", <<"U+13A6">>>>, <<"U+AB77", <<"U+13A7">>>>,
   <<"U+AB78", <<"U+13A8">>>>, <<"U+AB79", <<"U+13A9">>>>, <<"U+AB7A", <<"U+13AA">>>>,
   <<"U+AB7B", <<"U+13AB">>>>, <<"U+AB7C", <<"U+13AC">>>>, <<"U+AB7D", <<"U+13AD">>>>,
   <<"U+AB7E", <<"U+13AE">>>>, <<"U+AB7F", <<"U+13AF">>>>, <<"U+AB80", <<"U+13B0">>>>,
   <<"U+AB81", <<"U+13B1">>>>, <<"U+AB82", <<"U+13B2">>>>, <<"U+AB83", <<"U+13B3">>>>,
   <<"U+AB84", <<"U+13B4">>>>, <<"U+AB85", <<"U+13B5">>>>, <<"U+AB86", <<"U+13B6">>>>,
   <<"U+AB87", <<"U+13B7">>>>, <<"U+AB88", <<"U+13B8">>>>, <<"U+AB89", <<"U+13B9">>>>,
   <<"U+AB8A", <<"U+13BA">>>>, <<"U+AB8B", <<"U+13BB">>>>, <<"U+AB8C", <<"U+13BC">>>>,
   <<"U+AB8D", <<"U+13BD">>>>, <<"U+AB8E", <<"U+13BE">>>>, <<"U+AB8F", <<"U+13BF">>>>,
   <<"U+AB90", <<"U+13C0">>>>, <<"U+AB91", <<"U+13C1">>>>, <<"U+AB92", <<"U+13C2">>>>,
   <<"U+AB93", <<"U+13C3">>>>, <<"U+AB94", <<"U+13C4">>>>, <<"U+AB95", <<"U+13C5">>>>,
   <<"U+AB96", <<"U+13C6">>>>, <<"U+AB97", <<"U+13C7">>>>, <<"U+AB98", <<"U+13C8">>>>,
   <<"U+AB99", <<"U+13C9">>>>, <<"U+AB9A", <<"U+13CA">>>>, <<"U+AB9B", <<"U+13CB">>>>,
   <<"U+AB9C", <<"U+13CC">>>>, <<"U+AB9D", <<"U+13CD">>>>, <<"U+AB9E", <<"U+13CE">>>>,
   <<"U+AB9F", <<"U+13CF">>>>, <<"U+ABA0", <<"U+13D0">>>>, <<"U+ABA1", <<"U+13D1">>>>,
   <<"U+ABA2", <<"U+13D2">>>>, <<"U+ABA3", <<"U+13D3">>>>, <<"U+ABA4", <<"U+13D4">>>>,
   <<"U+ABA5", <<"U+13D5">>>>, <<"U+ABA6", <<"U+13D6">>>>, <<"U+ABA7", <<"U+13D7">>>>,
   <<"U+ABA8", <<"U+13D8">>>>, <<"U+ABA9", <<"U+13D9">>>>, <<"U+ABAA", <<"U+13DA">>>>,
   <<"U+ABAB", <<"U+13DB">>>>, <<"U+ABAC", <<"U+13DC">>>>, <<"U+ABAD", <<"U+13DD">>>>,
   <<"U+ABAE", <<"U+13DE">>>>, <<"U+ABAF", <<"U+13DF">>>>, <<"U+ABB0", <<"U+13E0">>>>,
   <<"U+ABB1", <<"U+13E1">>>>, <<"U+ABB2", <<"U+13E2">>>>, <<"U+ABB3", <<"U+13E3">>>>,
   <<"U+ABB4", <<"U+13E4">>>>, <<"U+ABB5", <<"U+13E5">>>>, <<"U+ABB6", <<"U+13E6">>>>,
   <<"U+ABB7", <<"U+13E7">>>>, <<"U+ABB8", <<"U+13E8">>>>, <<"U+ABB9", <<"U+13E9">>>>,
   <<"U+ABBA", <<"U+13EA">>>>, <<"U+ABBB", <<"U+13EB">>>>, <<"U+ABBC", <<"U+13EC">>>>,
   <<"U+ABBD", <<"U+13ED">>>>, <<"U+ABBE", <<"U+13EE">>>>, <<"U+ABBF", <<"U+13EF">>>>,
   <<"U+FB00", <<"F","F">>>>, <<"U+FB01", <<"F","I">>>>, <<"U+FB02", <<"F","L">>>>,
   <<"U+FB03", <<"F","F","I">>>>, <<"U+FB04", <<"F","F","L">>>>, <<"U+FB05", <<"S","T">>>>,
   <<"U+FB06", <<"S","T">>>>, <<"U+FB13", <<"U+0544","U+0546">>>>,
   <<"U+FB14", <<"U+0544","U+0535">>>>, <<"U+FB15", <<"U+0544","U+053B">>>>,
   <<"U+FB16", <<"U+054E","U+0546">>>>, <<"U+FB17", <<"U+0544","U+053D">>>>,
   <<"U+FF41", <<"U+FF21">>>>, <<"U+FF42", <<"U+FF22">>>>, <<"U+FF43", <<"U+FF23">>>>,
   <<"U+FF44", <<"U+FF24">>>>, <<"U+FF45", <<"U+FF25">>>>, <<"U+FF46", <<"U+FF26">>>>,
   <<"U+FF47", <<"U+FF27">>>>, <<"U+FF48", <<"U+FF28">>>>, <<"U+FF49", <<"U+FF29">>>>,
   <<"U+FF4A", <<"U+FF2A">>>>, <<"U+FF4B", <<"U+FF2B">>>>, <<"U+FF4C", <<"U+FF2C">>>>,
   <<"U+FF4D", <<"U+FF2D">>>>, <<"U+FF4E", <<"U+FF2E">>>>, <<"U+FF4F", <<"U+FF2F">>>>,
   <<"U+FF50", <<"U+FF30">>>>, <<"U+FF51", <<"U+FF31">>>>, <<"U+FF52", <<"U+FF32">>>>,
   <<"U+FF53", <<"U+FF33">>>>, <<"U+FF54", <<"U+FF34">>>>, <<"U+FF55", <<"U+FF35">>>>,
   <<"U+FF56", <<"U+FF36">>>>, <<"U+FF57", <<"U+FF37">>>>, <<"U+FF58", <<"U+FF38">>>>,
   <<"U+FF59", <<"U+FF39">>>>, <<"U+FF5A", <<"U+FF3A">>>>, <<"U+10428", <<"U+10400">>>>,
   <<"U+10429", <<"U+10401">>>>, <<"U+1042A", <<"U+10402">>>>, <<"U+1042B", <<"U+10403">>>>,
   <<"U+1042C", <<"U+10404">>>>, <<"U+1042D", <<"U+10405">>>>, <<"U+1042E", <<"U+10406">>>>,
   <<"U+1042F", <<"U+10407">>>>, <<"U+10430", <<"U+10408">>>>, <<"U+10431", <<"U+10409">>>>,
   <<"U+10432", <<"U+1040A">>>>, <<"U+10433", <<"U+1040B">>>>, <<"U+10434", <<"U+1040C">>>>,
   <<"U+10435", <<"U+1040D">>>>, <<"U+10436", <<"U+1040E">>>>, <<"U+10437", <<"U+1040F">>>>,
   <<"U+10438", <<"U+10410">>>>, <<"U+10439", <<"U+10411">>>>, <<"U+1043A", <<"U+10412">>>>,
   <<"U+1043B", <<"U+10413">>>>, <<"U+1043C", <<"U+10414">>>>, <<"U+1043D", <<"U+10415">>>>,
   <<"U+1043E", <<"U+10416">>>>, <<"U+1043F", <<"U+10417">>>>, <<"U+10440", <<"U+10418">>>>,
   <<"U+10441", <<"U+10419">>>>, <<"U+10442", <<"U+1041A">>>>, <<"U+10443", <<"U+1041B">>>>,
   <<"U+10444", <<"U+1041C">>>>, <<"U+10445", <<"U+1041D">>>>, <<"U+10446", <<"U+1041E">>>>,
   <<"U+10447", <<"U+1041F">>>>, <<"U+10448", <<"U+10420">>>>, <<"U+10449", <<"U+10421">>>>,
   <<"U+1044A", <<"U+10422">>>>, <<"U+1044B", <<"U+10423">>>>, <<"U+1044C", <<"U+10424">>>>,
   <<"U+1044D", <<"U+10425">>>>, <<"U+1044E", <<"U+10426">>>>, <<"U+1044F", <<"U+10427">>>>,
   <<"U+104D8", <<"U+104B0">>>>, <<"U+104D9", <<"U+104B1">>>>, <<"U+104DA", <<"U+104B2">>>>,
   <<"U+104DB", <<"U+104B3">>>>, <<"U+104DC", <<"U+104B4">>>>, <<"U+104DD", <<"U+104B5">>>>,
   <<"U+104DE", <<"U+104B6">>>>, <<"U+104DF", <<"U+104B7">>>>, <<"U+104E0", <<"U+104B8">>>>,
   <<"U+104E1", <<"U+104B9">>>>, <<"U+104E2", <<"U+104BA">>>>, <<"U+104E3", <<"U+104BB">>>>,
   <<"U+104E4", <<"U+104BC">>>>, <<"U+104E5", <<"U+104BD">>>>, <<"U+104E6", <<"U+104BE">>>>,
   <<"U+104E7", <<"U+104BF">>>>, <<"U+104E8", <<"U+104C0">>>>, <<"U+104E9", <<"U+104C1">>>>,
   <<"U+104EA", <<"U+104C2">>>>, <<"U+104EB", <<"U+104C3">>>>, <<"U+104EC", <<"U+104C4">>>>,
   <<"U+104ED", <<"U+104C5">>>>, <<"U+104EE", <<"U+104C6">>>>, <<"U+104EF", <<"U+104C7">>>>,
   <<"U+104F0", <<"U+104C8">>>>, <<"U+104F1", <<"U+104C9">>>>, <<"U+104F2", <<"U+104CA">>>>,
   <<"U+104F3", <<"U+104CB">>>>, <<"U+104F4", <<"U+104CC">>>>, <<"U+104F5", <<"U+104CD">>>>,
   <<"U+104F6", <<"U+104CE">>>>, <<"U+104F7", <<"U+104CF">>>>, <<"U+104F8", <<"U+104D0">>>>,
   <<"U+104F9", <<"U+104D1">>>>, <<"U+104FA", <<"U+104D2">>>>, <<"U+104FB", <<"U+104D3">>>>,
   <<"U+10597", <<"U+10570">>>>, <<"U+10598", <<"U+10571">>>>, <<"U+10599", <<"U+10572">>>>,
   <<"U+1059A", <<"U+10573">>>>, <<"U+1059B", <<"U+10574">>>>, <<"U+1059C", <<"U+10575">>>>,
   <<"U+1059D", <<"U+10576">>>>, <<"U+1059E", <<"U+10577">>>>, <<"U+1059F", <<"U+10578">>>>,
   <<"U+105A0", <<"U+10579">>>>, <<"U+105A1", <<"U+1057A">>>>, <<"U+105A3", <<"U+1057C">>>>,
   <<"U+105A4", <<"U+1057D">>>>, <<"U+105A5", <<"U+1057E">>>>, <<"U+105A6", <<"U+1057F">>>>,
   <<"U+105A7", <<"U+10580">>>>, <<"U+105A8", <<"U+10581">>>>, <<"U+105A9", <<"U+10582">>>>,
   <<"U+105AA", <<"U+10583">>>>, <<"U+105AB", <<"U+10584">>>>, <<"U+105AC", <<"U+10585">>>>,
   <<"U+105AD", <<"U+10586">>>>, <<"U+105AE", <<"U+10587">>>>, <<"U+105AF", <<"U+10588">>>>,
   <<"U+105B0", <<"U+10589">>>>, <<"U+105B1", <<"U+1058A">>>>, <<"U+105B3", <<"U+1058C">>>>,
   <<"U+105B4", <<"U+1058D">>>>, <<"U+105B5", <<"U+1058E">>>>, <<"U+105B6", <<"U+1058F">>>>,
   <<"U+105B7", <<"U+10590">>>>, <<"U+105B8", <<"U+10591">>>>, <<"U+105B9", <<"U+10592">>>>,
   <<"U+105BB", <<"U+10594">>>>, <<"U+105BC", <<"U+10595">>>>, <<"U+10CC0", <<"U+10C80">>>>,
   <<"U+10CC1", <<"U+10C81">>>>, <<"U+10CC2", <<"U+10C82">>>>, <<"U+10CC3", <<"U+10C83">>>>,
   <<"U+10CC4", <<"U+10C84">>>>, <<"U+10CC5", <<"U+10C85">>>>, <<"U+10CC6", <<"U+10C86">>>>,
   <<"U+10CC7", <<"U+10C87">>>>, <<"U+10CC8", <<"U+10C88">>>>, <<"U+10CC9", <<"U+10C89">>>>,
   <<"U+10CCA", <<"U+10C8A">>>>, <<"U+10CCB", <<"U+10C8B">>>>, <<"U+10CCC", <<"U+10C8C">>>>,
   <<"U+10CCD", <<"U+10C8D">>>>, <<"U+10CCE", <<"U+10C8E">>>>, <<"U+10CCF", <<"U+10C8F">>>>,
   <<"U+10CD0", <<"U+10C90">>>>, <<"U+10CD1", <<"U+10C91">>>>, <<"U+10CD2", <<"U+10C92">>>>,
   <<"U+10CD3", <<"U+10C93">>>>, <<"U+10CD4", <<"U+10C94">>>>, <<"U+10CD5", <<"U+10C95">>>>,
   <<"U+10CD6", <<"U+10C96">>>>, <<"U+10CD7", <<"U+10C97">>>>, <<"U+10CD8", <<"U+10C98">>>>,
   <<"U+10CD9", <<"U+10C99">>>>, <<"U+10CDA", <<"U+10C9A">>>>, <<"U+10CDB", <<"U+10C9B">>>>,
   <<"U+10CDC", <<"U+10C9C">>>>, <<"U+10CDD", <<"U+10C9D">>>>, <<"U+10CDE", <<"U+10C9E">>>>,
   <<"U+10CDF", <<"U+10C9F">>>>, <<"U+10CE0", <<"U+10CA0">>>>, <<"U+10CE1", <<"U+10CA1">>>>,
   <<"U+10CE2", <<"U+10CA2">>>>, <<"U+10CE3", <<"U+10CA3">>>>, <<"U+10CE4", <<"U+10CA4">>>>,
   <<"U+10CE5", <<"U+10CA5">>>>, <<"U+10CE6", <<"U+10CA6">>>>, <<"U+10CE7", <<"U+10CA7">>>>,
   <<"U+10CE8", <<"U+10CA8">>>>, <<"U+10CE9", <<"U+10CA9">>>>, <<"U+10CEA", <<"U+10CAA">>>>,
   <<"U+10CEB", <<"U+10CAB">>>>, <<"U+10CEC", <<"U+10CAC">>>>, <<"U+10CED", <<"U+10CAD">>>>,
   <<"U+10CEE", <<"U+10CAE">>>>, <<"U+10CEF", <<"U+10CAF">>>>, <<"U+10CF0", <<"U+10CB0">>>>,
   <<"U+10CF1", <<"U+10CB1">>>>, <<"U+10CF2", <<"U+10CB2">>>>, <<"U+118C0", <<"U+118A0">>>>,
   <<"U+118C1", <<"U+118A1">>>>, <<"U+118C2", <<"U+118A2">>>>, <<"U+118C3", <<"U+118A3">>>>,
   <<"U+118C4", <<"U+118A4">>>>, <<"U+118C5", <<"U+118A5">>>>, <<"U+118C6", <<"U+118A6">>>>,
   <<"U+118C7", <<"U+118A7">>>>, <<"U+118C8", <<"U+118A8">>>>, <<"U+118C9", <<"U+118A9">>>>,
   <<"U+118CA", <<"U+118AA">>>>, <<"U+118CB", <<"U+118AB">>>>, <<"U+118CC", <<"U+118AC">>>>,
   <<"U+118CD", <<"U+118AD">>>>, <<"U+118CE", <<"U+118AE">>>>, <<"U+118CF", <<"U+118AF">>>>,
   <<"U+118D0", <<"U+118B0">>>>, <<"U+118D1", <<"U+118B1">>>>, <<"U+118D2", <<"U+118B2">>>>,
   <<"U+118D3", <<"U+118B3">>>>, <<"U+118D4", <<"U+118B4">>>>, <<"U+118D5", <<"U+118B5">>>>,
   <<"U+118D6", <<"U+118B6">>>>, <<"U+118D7", <<"U+118B7">>>>, <<"U+118D8", <<"U+118B8">>>>,
   <<"U+118D9", <<"U+118B9">>>>, <<"U+118DA", <<"U+118BA">>>>, <<"U+118DB", <<"U+118BB">>>>,
   <<"U+118DC", <<"U+118BC">>>>, <<"U+118DD", <<"U+118BD">>>>, <<"U+118DE", <<"U+118BE">>>>,
   <<"U+118DF", <<"U+118BF">>>>, <<"U+16E60", <<"U+16E40">>>>, <<"U+16E61", <<"U+16E41">>>>,
   <<"U+16E62", <<"U+16E42">>>>, <<"U+16E63", <<"U+16E43">>>>, <<"U+16E64", <<"U+16E44">>>>,
   <<"U+16E65", <<"U+16E45">>>>, <<"U+16E66", <<"U+16E46">>>>, <<"U+16E67", <<"U+16E47">>>>,
   <<"U+16E68", <<"U+16E48">>>>, <<"U+16E69", <<"U+16E49">>>>, <<"U+16E6A", <<"U+16E4A">>>>,
   <<"U+16E6B", <<"U+16E4B">>>>, <<"U+16E6C", <<"U+16E4C">>>>, <<"U+16E6D", <<"U+16E4D">>>>,
   <<"U+16E6E", <<"U+16E4E">>>>, <<"U+16E6F", <<"U+16E4F">>>>, <<"U+16E70", <<"U+16E50">>>>,
   <<"U+16E71", <<"U+16E51">>>>, <<"U+16E72", <<"U+16E52">>>>, <<"U+16E73", <<"U+16E53">>>>,
   <<"U+16E74", <<"U+16E54">>>>, <<"U+16E75", <<"U+16E55">>>>, <<"U+16E76", <<"U+16E56">>>>,
   <<"U+16E77", <<"U+16E57">>>>, <<"U+16E78", <<"U+16E58">>>>, <<"U+16E79", <<"U+16E59">>>>,
   <<"U+16E7A", <<"U+16E5A">>>>, <<"U+16E7B", <<"U+16E5B">>>>, <<"U+16E7C", <<"U+16E5C">>>>,
   <<"U+16E7D", <<"U+16E5D">>>>, <<"U+16E7E", <<"U+16E5E">>>>, <<"U+16E7F", <<"U+16E5F">>>>,
   <<"U+1E922", <<"U+1E900">>>>, <<"U+1E923", <<"U+1E901">>>>, <<"U+1E924", <<"U+1E902">>>>,
   <<"U+1E925", <<"U+1E903">>>>, <<"U+1E926", <<"U+1E904">>>>, <<"U+1E927", <<"U+1E905">>>>,
   <<"U+1E928", <<"U+1E906">>>>, <<"U+1E929", <<"U+1E907">>>>, <<"U+1E92A", <<"U+1E908">>>>,
   <<"U+1E92B", <<"U+1E909">>>>, <<"U+1E92C", <<"U+1E90A">>>>, <<"U+1E92D", <<"U+1E90B">>>>,
   <<"U+1E92E", <<"U+1E90C">>>>, <<"U+1E92F", <<"U+1E90D">>>>, <<"U+1E930", <<"U+1E90E">>>>,
   <<"U+1E931", <<"U+1E90F">>>>, <<"U+1E932", <<"U+1E910">>>>, <<"U+1E933", <<"U+1E911">>>>,
   <<"U+1E934", <<"U+1E912">>>>, <<"U+1E935", <<"U+1E913">>>>, <<"U+1E936", <<"U+1E914">>>>,
   <<"U+1E937", <<"U+1E915">>>>, <<"U+1E938", <<"U+1E916">>>>, <<"U+1E939", <<"U+1E917">>>>,
   <<"U+1E93A", <<"U+1E918">>>>, <<"U+1E93B", <<"U+1E919">>>>, <<"U+1E93C", <<"U+1E91A">>>>,
   <<"U+1E93D", <<"U+1E91B">>>>, <<"U+1E93E", <<"U+1E91C">>>>, <<"U+1E93F", <<"U+1E91D">>>>,
   <<"U+1E940", <<"U+1E91E">>>>, <<"U+1E941", <<"U+1E91F">>>>, <<"U+1E942", <<"U+1E920">>>>,
   <<"U+1E943", <<"U+1E921">>>>>>

\* The mapping that `rows` lists, and what it gives for c: a character that
\* is in no row is mapped to itself.
MappingOf(rows) ==
  [c \in {rows[r][1] : r \in DOMAIN rows} |->
     rows[CHOOSE r \in DOMAIN rows : rows[r][1] = c][2]]
Mapped(mapping, c) == IF c \in DOMAIN mapping THEN mapping[c] ELSE <<c>>

UpperCase == MappingOf(UpperCaseRows)

\* str.upper() on one character.
UpperChar(c) == Mapped(UpperCase, c)

\* str.upper()
RECURSIVE Upper(_)
Upper(s) == IF s = <<>> THEN <<>> ELSE UpperChar(Head(s)) \o Upper(Tail(s))

\* str.startswith(prefix)
StartsWith(s, prefix) ==
  /\ Len(prefix) <= Len(s)
  /\ SubSeq(s, 1, Len(prefix)) = prefix

\* str.find(sub): the lowest 0-based index where sub occurs in s, or -1.
Find(s, sub) ==
  LET hits == {i \in 0..(Len(s) - Len(sub)) : SubSeq(s, i + 1, i + Len(sub)) = sub}
  IN IF hits = {} THEN -1 ELSE CHOOSE i \in hits : \A j \in hits : i <= j

\* The decimal digits of Unicode (category Nd, Unicode 14.0.0), one row per
\* script, each row the digits 0 to 9 in order; the first row is Digits.
DecimalDigitRows == <<Digits,
   <<"U+0660","U+0661","U+0662","U+0663","U+0664","U+0665","U+0666","U+0667","U+0668","U+0669">>,
   <<"U+06F0","U+06F1","U+06F2","U+06F3","U+06F4","U+06F5","U+06F6","U+06F7","U+06F8","U+06F9">>,
   <<"U+07C0","U+07C1","U+07C2","U+07C3","U+07C4","U+07C5","U+07C6","U+07C7","U+07C8","U+07C9">>,
   <<"U+0966","U+0967","U+0968","U+0969","U+096A","U+096B","U+096C","U+096D","U+096E","U+096F">>,
   <<"U+09E6","U+09E7","U+09E8","U+09E9","U+09EA","U+09EB","U+09EC","U+09ED","U+09EE","U+09EF">>,
   <<"U+0A66","U+0A67","U+0A68","U+0A69","U+0A6A","U+0A6B","U+0A6C","U+0A6D","U+0A6E","U+0A6F">>,
   <<"U+0AE6","U+0AE7","U+0AE8","U+0AE9","U+0AEA","U+0AEB","U+0AEC","U+0AED","U+0AEE","U+0AEF">>,
   <<"U+0B66","U+0B67","U+0B68","U+0B69","U+0B6A","U+0B6B","U+0B6C","U+0B6D","U+0B6E","U+0B6F">>,
   <<"U+0BE6","U+0BE7","U+0BE8","U+0BE9","U+0BEA","U+0BEB","U+0BEC","U+0BED","U+0BEE","U+0BEF">>,
   <<"U+0C66","U+0C67","U+0C68","U+0C69","U+0C6A","U+0C6B","U+0C6C","U+0C6D","U+0C6E","U+0C6F">>,
   <<"U+0CE6","U+0CE7","U+0CE8","U+0CE9","U+0CEA","U+0CEB","U+0CEC","U+0CED","U+0CEE","U+0CEF">>,
   <<"U+0D66","U+0D67","U+0D68","U+0D69","U+0D6A","U+0D6B","U+0D6C","U+0D6D","U+0D6E","U+0D6F">>,
   <<"U+0DE6","U+0DE7","U+0DE8","U+0DE9","U+0DEA","U+0DEB","U+0DEC","U+0DED","U+0DEE","U+0DEF">>,
   <<"U+0E50","U+0E51","U+0E52","U+0E53","U+0E54","U+0E55","U+0E56","U+0E57","U+0E58","U+0E59">>,
   <<"U+0ED0","U+0ED1","U+0ED2","U+0ED3","U+0ED4","U+0ED5","U+0ED6","U+0ED7","U+0ED8","U+0ED9">>,
   <<"U+0F20","U+0F21","U+0F22","U+0F23","U+0F24","U+0F25","U+0F26","U+0F27","U+0F28","U+0F29">>,
   <<"U+1040","U+1041","U+1042","U+1043","U+1044","U+1045","U+1046","U+1047","U+1048","U+1049">>,
   <<"U+1090","U+1091","U+1092","U+1093","U+1094","U+1095","U+1096","U+1097","U+1098","U+1099">>,
   <<"U+17E0","U+17E1","U+17E2","U+17E3","U+17E4","U+17E5","U+17E6","U+17E7","U+17E8","U+17E9">>,
   <<"U+1810","U+1811","U+1812","U+1813","U+1814","U+1815","U+1816","U+1817","U+1818","U+1819">>,
   <<"U+1946","U+1947","U+1948","U+1949","U+194A","U+194B","U+194C","U+194D","U+194E","U+194F">>,
   <<"U+19D0","U+19D1","U+19D2","U+19D3","U+19D4","U+19D5","U+19D6","U+19D7","U+19D8","U+19D9">>,
   <<"U+1A80","U+1A81","U+1A82","U+1A83","U+1A84","U+1A85","U+1A86","U+1A87","U+1A88","U+1A89">>,
   <<"U+1A90","U+1A91","U+1A92","U+1A93","U+1A94","U+1A95","U+1A96","U+1A97","U+1A98","U+1A99">>,
   <<"U+1B50","U+1B51","U+1B52","U+1B53","U+1B54","U+1B55","U+1B56","U+1B57","U+1B58","U+1B59">>,
   <<"U+1BB0","U+1BB1","U+1BB2","U+1BB3","U+1BB4","U+1BB5","U+1BB6","U+1BB7","U+1BB8","U+1BB9">>,
   <<"U+1C40","U+1C41","U+1C42","U+1C43","U+1C44","U+1C45","U+1C46","U+1C47","U+1C48","U+1C49">>,
   <<"U+1C50","U+1C51","U+1C52","U+1C53","U+1C54","U+1C55","U+1C56","U+1C57","U+1C58","U+1C59">>,
   <<"U+A620","U+A621","U+A622","U+A623","U+A624","U+A625","U+A626","U+A627","U+A628","U+A629">>,
   <<"U+A8D0","U+A8D1","U+A8D2","U+A8D3","U+A8D4","U+A8D5","U+A8D6","U+A8D7","U+A8D8","U+A8D9">>,
   <<"U+A900","U+A901","U+A902","U+A903","U+A904","U+A905","U+A906","U+A907","U+A908","U+A909">>,
   <<"U+A9D0","U+A9D1","U+A9D2","U+A9D3","U+A9D4","U+A9D5","U+A9D6","U+A9D7","U+A9D8","U+A9D9">>,
   <<"U+A9F0","U+A9F1","U+A9F2","U+A9F3","U+A9F4","U+A9F5","U+A9F6","U+A9F7","U+A9F8","U+A9F9">>,
   <<"U+AA50","U+AA51","U+AA52","U+AA53","U+AA54","U+AA55","U+AA56","U+AA57","U+AA58","U+AA59">>,
   <<"U+ABF0","U+ABF1","U+ABF2","U+ABF3","U+ABF4","U+ABF5","U+ABF6","U+ABF7","U+ABF8","U+ABF9">>,
   <<"U+FF10","U+FF11","U+FF12","U+FF13","U+FF14","U+FF15","U+FF16","U+FF17","U+FF18","U+FF19">>,
   <<"U+104A0","U+104A1","U+104A2","U+104A3","U+104A4","U+104A5","U+104A6","U+104A7","U+104A8","U+104A9">>,
   <<"U+10D30","U+10D31","U+10D32","U+10D33","U+10D34","U+10D35","U+10D36","U+10D37","U+10D38","U+10D39">>,
   <<"U+11066","U+11067","U+11068","U+11069","U+1106A","U+1106B","U+1106C","U+1106D","U+1106E","U+1106F">>,
   <<"U+110F0","U+110F1","U+110F2","U+110F3","U+110F4","U+110F5","U+110F6","U+110F7","U+110F8","U+110F9">>,
   <<"U+11136","U+11137","U+11138","U+11139","U+1113A","U+1113B","U+1113C","U+1113D","U+1113E","U+1113F">>,
   <<"U+111D0","U+111D1","U+111D2","U+111D3","U+111D4","U+111D5","U+111D6","U+111D7","U+111D8","U+111D9">>,
   <<"U+112F0","U+112F1","U+112F2","U+112F3","U+112F4","U+112F5","U+112F6","U+112F7","U+112F8","U+112F9">>,
   <<"U+11450","U+11451","U+11452","U+11453","U+11454","U+11455","U+11456","U+11457","U+11458","U+11459">>,
   <<"U+114D0","U+114D1","U+114D2","U+114D3","U+114D4","U+114D5","U+114D6","U+114D7","U+114D8","U+114D9">>,
   <<"U+11650","U+11651","U+11652","U+11653","U+11654","U+11655","U+11656","U+11657","U+11658","U+11659">>,
   <<"U+116C0","U+116C1","U+116C2","U+116C3","U+116C4","U+116C5","U+116C6","U+116C7","U+116C8","U+116C9">>,
   <<"U+11730","U+11731","U+11732","U+11733","U+11734","U+11735","U+11736","U+11737","U+11738","U+11739">>,
   <<"U+118E0","U+118E1","U+118E2","U+118E3","U+118E4","U+118E5","U+118E6","U+118E7","U+118E8","U+118E9">>,
   <<"U+11950","U+11951","U+11952","U+11953","U+11954","U+11955","U+11956","U+11957","U+11958","U+11959">>,
   <<"U+11C50","U+11C51","U+11C52","U+11C53","U+11C54","U+11C55","U+11C56","U+11C57","U+11C58","U+11C59">>,
   <<"U+11D50","U+11D51","U+11D52","U+11D53","U+11D54","U+11D55","U+11D56","U+11D57","U+11D58","U+11D59">>,
   <<"U+11DA0","U+11DA1","U+11DA2","U+11DA3","U+11DA4","U+11DA5","U+11DA6","U+11DA7","U+11DA8","U+11DA9">>,
   <<"U+16A60","U+16A61","U+16A62","U+16A63","U+16A64","U+16A65","U+16A66","U+16A67","U+16A68","U+16A69">>,
   <<"U+16AC0","U+16AC1","U+16AC2","U+16AC3","U+16AC4","U+16AC5","U+16AC6","U+16AC7","U+16AC8","U+16AC9">>,
   <<"U+16B50","U+16B51","U+16B52","U+16B53","U+16B54","U+16B55","U+16B56","U+16B57","U+16B58","U+16B59">>,
   <<"U+1D7CE","U+1D7CF","U+1D7D0","U+1D7D1","U+1D7D2","U+1D7D3","U+1D7D4","U+1D7D5","U+1D7D6","U+1D7D7">>,
   <<"U+1D7D8","U+1D7D9","U+1D7DA","U+1D7DB","U+1D7DC","U+1D7DD","U+1D7DE","U+1D7DF","U+1D7E0","U+1D7E1">>,
   <<"U+1D7E2","U+1D7E3","U+1D7E4","U+1D7E5","U+1D7E6","U+1D7E7","U+1D7E8","U+1D7E9","U+1D7EA","U+1D7EB">>,
   <<"U+1D7EC","U+1D7ED","U+1D7EE","U+1D7EF","U+1D7F0","U+1D7F1","U+1D7F2","U+1D7F3","U+1D7F4","U+1D7F5">>,
   <<"U+1D7F6","U+1D7F7","U+1D7F8","U+1D7F9","U+1D7FA","U+1D7FB","U+1D7FC","U+1D7FD","U+1D7FE","U+1D7FF">>,
   <<"U+1E140","U+1E141","U+1E142","U+1E143","U+1E144","U+1E145","U+1E146","U+1E147","U+1E148","U+1E149">>,
   <<"U+1E2F0","U+1E2F1","U+1E2F2","U+1E2F3","U+1E2F4","U+1E2F5","U+1E2F6","U+1E2F7","U+1E2F8","U+1E2F9">>,
   <<"U+1E950","U+1E951","U+1E952","U+1E953","U+1E954","U+1E955","U+1E956","U+1E957","U+1E958","U+1E959">>,
   <<"U+1FBF0","U+1FBF1","U+1FBF2","U+1FBF3","U+1FBF4","U+1FBF5","U+1FBF6","U+1FBF7","U+1FBF8","U+1FBF9">>>>

DecimalDigitChars ==
  {DecimalDigitRows[r][i] : r \in DOMAIN DecimalDigitRows, i \in 1..10}

\* The character is a decimal digit, and its value.
IsDigit(c) == c \in DecimalDigitChars
DigitVal(c) ==
  (CHOOSE i \in 1..10 : \E r \in DOMAIN DecimalDigitRows : DecimalDigitRows[r][i] = c) - 1

\* str.isdecimal(): at least one character and all of them decimal digits.
IsDecimal(s) == Len(s) > 0 /\ \A i \in DOMAIN s : IsDigit(s[i])

\* The value of a string of decimal digits.
RECURSIVE DecimalValue(_)
DecimalValue(s) ==
  IF Len(s) = 0 THEN 0
  ELSE 10 * DecimalValue(SubSeq(s, 1, Len(s) - 1)) + DigitVal(s[Len(s)])

\* The whitespace int() ignores around a number.
Whitespace ==
  {"\t", "\n", "U+000B", "\f", "\r", " ", "U+0085", "U+00A0",
   "U+1680", "U+2000", "U+2001", "U+2002", "U+2003", "U+2004",
   "U+2005", "U+2006", "U+2007", "U+2008", "U+2009", "U+200A",
   "U+2028", "U+2029", "U+202F", "U+205F", "U+3000"}

RECURSIVE Strip(_)
\* The argument of int() without the whitespace at its ends.
Strip(s) ==
  IF Len(s) > 0 /\ s[1] \in Whitespace THEN Strip(Tail(s))
  ELSE IF Len(s) > 0 /\ s[Len(s)] \in Whitespace THEN Strip(SubSeq(s, 1, Len(s) - 1))
  ELSE s

\* The argument of int() without whitespace and sign.
Unsigned(s) ==
  LET b == Strip(s)
  IN IF Len(b) > 0 /\ b[1] \in {"-", "+"} THEN Tail(b) ELSE b

\* int(s) is defined (no ValueError): whitespace, an optional sign, then
\* decimal digits, with single underscores allowed between digits.
IntParses(s) ==
  LET u == Unsigned(s)
  IN /\ Len(u) > 0
     /\ \A i \in DOMAIN u : IsDigit(u[i]) \/ u[i] = "_"
     /\ IsDigit(u[1]) /\ IsDigit(u[Len(u)])
     /\ \A i \in 1..(Len(u) - 1) : ~(u[i] = "_" /\ u[i + 1] = "_")

\* int(s), where it is defined.
IntOf(s) ==
  LET b == Strip(s)
      value == DecimalValue(SelectSeq(Unsigned(s), LAMBDA c : c # "_"))
  IN IF b[1] = "-" THEN 0 - value ELSE value

\* ------------------------------------------------------------ commands
\* One Command instance: its command string (Command.cmd) and whether it
\* takes an argument (Command.has_args), as each constructor passes them.
StartCommand == [id |-> "start", cmd |-> <<"/","s","t","a","r","t">>, has_args |-> FALSE]
StopCommand == [id |-> "stop", cmd |-> <<"/","s","t","o","p">>, has_args |-> FALSE]
AddBlCommand == [id |-> "add_bl", cmd |-> <<"/","a","d","d"," ","b","l">>, has_args |-> TRUE]
DelBlCommand == [id |-> "del_bl", cmd |-> <<"/","d","l"," ","b","l">>, has_args |-> TRUE]
ListBlCommand == [id |-> "list_bl", cmd |-> <<"/","l","i","s","t"," ","b","l">>, has_args |-> FALSE]
AddServerCommand == [id |-> "add_server", cmd |-> <<"/","a","d","d"," ","s","e","r","v","e","r">>, has_args |-> TRUE]
DelServerCommand == [id |-> "del_server", cmd |-> <<"/","d","e","l"," ","s","e","r","v","e","r">>, has_args |-> TRUE]
StatusCommand == [id |-> "status", cmd |-> <<"/","s","t","a","t","u","s">>, has_args |-> FALSE]
SetWorldCommand == [id |-> "set_world", cmd |-> <<"/","s","e","t"," ","w","o","r","l","d">>, has_args |-> TRUE]
SetIntervalCommand == [id |-> "set_interval", cmd |-> <<"/","s","e","t"," ","i","n","t","e","r","v","a","l">>, has_args |-> TRUE]
SetPlayerCountCommand == [id |-> "set_player_count", cmd |-> <<"/","s","e","t"," ","p","l","a","y","e","r","_","c","o","u","n","t">>, has_args |-> TRUE]
FuckCommand == [id |-> "fuck", cmd |-> <<"/","f","u","c","k">>, has_args |-> TRUE]
HelpCommand == [id |-> "help", cmd |-> <<"/","?">>, has_args |-> FALSE]

\* CommandManager.__cmd_list, in registration order, HelpCommand appended last.
CmdList == <<StartCommand,
            StopCommand,
            AddBlCommand,
            DelBlCommand,
            ListBlCommand,
            AddServerCommand,
            DelServerCommand,
            StatusCommand,
            SetWorldCommand,
            SetIntervalCommand,
            SetPlayerCountCommand,
            FuckCommand,
            HelpCommand>>

\* ------------------------------------------------------------ Python values
\* A discord Message object: its text. Every command message of the model is
\* typed in the one channel Origin, which is message.channel.
Message(content) == [class |-> "Message", content |-> content]
Origin == <<"o","p","s">>

\* The values config.watch_interval takes: an int or a str.
PyInt(n) == [class |-> "int", int |-> n, str |-> <<>>]
PyStr(s) == [class |-> "str", int |-> 0, str |-> s]

\* str.__eq__: a str equals only another str with the same characters.
StrEq(s, other) == other.class = "str" /\ other.str = s

\* dict: a function on the set of its keys.
EmptyDict == [k \in {} |-> {}]
DictSet(d, key, value) ==
  [k \in (DOMAIN d) \cup {key} |-> IF k = key THEN value ELSE d[k]]

\* list.remove(x): drop the first occurrence of x, which is present.
ListRemove(l, x) ==
  LET i == CHOOSE j \in DOMAIN l : l[j] = x /\ \A k \in 1..(j - 1) : l[k] # x
  IN SubSeq(l, 1, i - 1) \o SubSeq(l, i + 1, Len(l))

InList(l, x) == \E i \in DOMAIN l : l[i] = x

\* ------------------------------------------------------------ program constants
\* SetWatchIntervalCommand.execute_cmd: the least interval, in seconds.
MinInterval == 30
\* SetPlayerSbnCountCommand.execute_cmd: the least surge threshold.
MinPlayerSbnCount == 3

\* ------------------------------------------------------------ dispatch
\* Command.is_call
is_call(c, content) == StartsWith(content, c.cmd)

\* CommandManager.execute: the index in CmdList of the first command whose
\* is_call succeeds on the text, 0 when there is none.
call_cmd(content) ==
  LET hits == {i \in DOMAIN CmdList : is_call(CmdList[i], content)}
  IN IF hits = {} THEN 0 ELSE CHOOSE i \in hits : \A j \in hits : i <= j

\* Command.is_cmd_help(msg). Command.execute passes it the Message object.
is_cmd_help(c, msg) == StrEq(c.cmd \o <<" ", "/", "?">>, msg)

\* Command.is_valid
is_valid(c, message) ==
  IF c.has_args
  THEN /\ StartsWith(message.content, c.cmd \o <<" ">>)
       /\ Len(c.cmd) + 1 < Len(message.content)
  ELSE message.content = c.cmd

\* Command.execute: args = message.content[len(self.cmd) + 1:]
ArgsOf(c, message) == SubSeq(message.content, Len(c.cmd) + 2, Len(message.content))

\* ------------------------------------------------------------ the feed
A1 == <<"A","1">>
B2 == <<"B","2">>
C3 == <<"C","3">>

\* consts.SERVER_NAMES (A1..O15 in the program), cut down to three grids.
SERVER_NAMES == {A1, B2, C3}

\* One entry of a grid's "players" list.
Player(name) == [name |-> name]
Crowd(n) == [i \in 1..n |-> Player(<<"p","l">>)]
EvilDoer42 == Player(<<"E","v","i","l","D","o","e","r","4","2">>)

\* The bodies the web service answers with: "F1".."F3" parse to
\* {"grids": [...]}; "empty" is the empty body; "bad" is a body that
\* jsons.loads or the ["grids"] lookup raises on; "exc" is requests.get raising.
FeedIds == {"F1", "F2", "F3"}
FetchOutcomes == {"exc", "empty", "bad"} \cup FeedIds

\* grids_dict["grids"] of each body. A1 has 10, 15 and 12 players; B2 is
\* missing from F1; C3 is never in the feed.
Grids(f) ==
  CASE f = "F1" -> <<[grid |-> A1, players |-> Crowd(10)]>>
    [] f = "F2" -> <<[grid |-> A1, players |-> Crowd(14) \o <<EvilDoer42>>],
                     [grid |-> B2, players |-> Crowd(2)]>>
    [] f = "F3" -> <<[grid |-> A1, players |-> Crowd(12)],
                     [grid |-> B2, players |-> Crowd(3)]>>
    [] OTHER -> <<>>

\* ------------------------------------------------------------ state
VARIABLES
  is_watch_started,               \* config.is_watch_started
  watch_interval,                 \* config.watch_interval: PyInt or PyStr
  player_sbn_count,               \* config.player_sbn_count
  blacklist,                      \* config.blacklist
  last_servers_info,              \* config.last_servers_info
  blacklist_notice_server_names,  \* config.blacklist_notice_server_names
  channels,                       \* the guild's report channels, by name
  task,                           \* the StartCommand.execute coroutines
  pending,                        \* the suspended execute_cmd coroutines, a bag
  reply                           \* what the last command handler sent

config == <<is_watch_started, watch_interval, player_sbn_count, blacklist,
            last_servers_info, blacklist_notice_server_names>>
vars == <<is_watch_started, watch_interval, player_sbn_count, blacklist,
          last_servers_info, blacklist_notice_server_names, channels, task,
          pending, reply>>

\* A StartCommand.execute coroutine, here one that is not running:
\*   pc     where it is suspended
\*   info   servers_info of its tick
\*   chans  tgt_channels of its tick, idx the channel it is reporting to
\* and, recorded for the properties, of its current tick:
\*   feed   the body the web service answered with
\*   prev   the player counts of config.last_servers_info when the tick read it
\*   bl     config.blacklist when the tick built servers_info
\*   log    the messages it has sent, in order
FreeTask(how) ==
  [pc |-> how, feed |-> "none", prev |-> EmptyDict, bl |-> {}, info |-> EmptyDict,
   chans |-> <<>>, idx |-> 0, log |-> <<>>]

\* The player counts of a snapshot: what a tick reads of the last one.
Counts(last) == [k \in DOMAIN last |-> last[k].player_count]

\* pc of a slot with no live coroutine: never used, returned True (line 385),
\* or ended by an exception that left execute.
FreePcs == {"idle", "returned", "raised"}
\* pc of a coroutine suspended in send_message of the "watch started" notice.
StartPcs == {"await_278"}
\* pc of a coroutine suspended in asyncio.sleep, by the line of the await.
SleepPcs == {"await_291", "await_299", "await_384"}
\* pc of a coroutine suspended in send_message of a tick's error report.
ErrorSentPcs == {"await_290", "await_298", "await_382"}
\* pc of a coroutine suspended in send_message to a report channel.
NotifyPcs == {"await_342", "await_355", "await_360", "await_366", "await_372"}

Live(t) == task[t].pc \notin FreePcs

Sent(kind, of) == [kind |-> kind, of |-> of]
Quiet == <<>>

InitWith(chs) ==
  /\ is_watch_started = FALSE
  /\ watch_interval = PyInt(MinInterval)
  /\ player_sbn_count = MinPlayerSbnCount
  /\ blacklist = {}
  /\ last_servers_info = EmptyDict
  /\ blacklist_notice_server_names = <<>>
  /\ channels = chs
  /\ task = [t \in AllTasks |-> FreeTask("idle")]
  /\ pending = EmptyBag
  /\ reply = Quiet

\* ------------------------------------------------------------ the watch loop
\* Lines 320-325 for the entries the outer loop runs over: every player
\* whose upper-cased name contains the upper-cased entry, entry by entry.
RECURSIVE MatchLoop(_, _)
MatchLoop(entries, players) ==
  IF entries = <<>> THEN <<>>
  ELSE SelectSeq(players,
                 LAMBDA player : Find(Upper(player.name), Upper(Head(entries))) # -1)
       \o MatchLoop(Tail(entries), players)

\* Lines 319-325: blacklist_players is created empty and the outer loop
\* runs over blacklist_players itself.
BlacklistPlayers(players) ==
  LET blacklist_players == <<>>
  IN blacklist_players \o MatchLoop(blacklist_players, players)

\* PlayerSbnCount with the subtraction of line 317 turned around.
PlayerSbnCount_Swapped(server_name, player_count, last) ==
  IF Cardinality(DOMAIN last) # 0 /\ server_name \in DOMAIN last
  THEN last[server_name].player_count - player_count
  ELSE 0

\* Lines 310-317: the change of a grid's player count since the last snapshot.
PlayerSbnCount(server_name, player_count, last) ==
  IF Cardinality(DOMAIN last) # 0 /\ server_name \in DOMAIN last
  THEN player_count - last[server_name].player_count
  ELSE 0

\* Lines 308-332: the entry of one grid.
ServerInfo(grid, last) ==
  [server_name |-> grid.grid,
   player_count |-> Len(grid.players),
   player_sbn_count |-> PlayerSbnCount(grid.grid, Len(grid.players), last),
   blacklist_players |-> BlacklistPlayers(grid.players)]

\* Lines 306-332: servers_info, grid by grid.
RECURSIVE ServersInfo(_, _, _)
ServersInfo(grids, last, acc) ==
  IF grids = <<>> THEN acc
  ELSE ServersInfo(Tail(grids), last,
                   DictSet(acc, Head(grids).grid, ServerInfo(Head(grids), last)))

\* What a step of a coroutine leaves behind: its own record, the snapshot
\* config.last_servers_info and the list config.blacklist_notice_server_names.
Res(tk, last, bnsn) == [tk |-> tk, last |-> last, bnsn |-> bnsn]

\* The coroutine reaches `await self.send_message(to, <kind>)` on line `at`.
Send(tk, to, kind, at) ==
  [tk EXCEPT !.log = Append(@, [to |-> to, kind |-> kind]), !.pc = at]

\* Line 384, after the try: await asyncio.sleep(self.config.watch_interval).
\* asyncio.sleep raises TypeError on a delay that is not a number, and
\* nothing around line 384 catches it.
Sleep384(tk) ==
  [tk EXCEPT !.pc = IF watch_interval.class = "int" THEN "await_384" ELSE "raised"]

\* Lines 377-382: the outer except reports to the channel of the /start message.
OuterExcept(tk) == Send(tk, Origin, "continue_warning", "await_382")

\* Lines 293-298: the inner except reports the failed connection.
InnerExcept(tk) == Send(tk, Origin, "connect_error", "await_298")

\* The entry of servers_info the coroutine is reporting (line 344).
CurrentInfo(tk) == tk.info[Upper(tk.chans[tk.idx])]

\* ForChannel with the surge alert in the place of the routine report of
\* lines 354-355.
ForChannel_SurgeFirst(tk, i, last, bnsn) ==
  IF i > Len(tk.chans)
  THEN Res(Sleep384(tk), tk.info, bnsn)
  ELSE IF Upper(tk.chans[i]) \notin DOMAIN tk.info
       THEN Res(Send([tk EXCEPT !.idx = i], tk.chans[i], "data_error", "await_342"),
                last, bnsn)
       ELSE Res(Send([tk EXCEPT !.idx = i], tk.chans[i], "surge_alert", "await_355"),
                last, bnsn)

\* Lines 339-355 for the i-th channel of tgt_channels, and lines 376 and 384
\* once the channels are done.
ForChannel(tk, i, last, bnsn) ==
  IF i > Len(tk.chans)
  THEN Res(Sleep384(tk), tk.info, bnsn)
  ELSE IF Upper(tk.chans[i]) \notin DOMAIN tk.info
       THEN Res(Send([tk EXCEPT !.idx = i], tk.chans[i], "data_error", "await_342"),
                last, bnsn)
       ELSE Res(Send([tk EXCEPT !.idx = i], tk.chans[i], "routine", "await_355"),
                last, bnsn)

\* Lines 370-372: the notice that no blacklisted player is left.
ClearCheck(tk, last, bnsn) ==
  IF /\ Len(CurrentInfo(tk).blacklist_players) = 0
     /\ InList(bnsn, CurrentInfo(tk).server_name)
  THEN Res(Send(tk, tk.chans[tk.idx], "blacklist_clear", "await_372"), last, bnsn)
  ELSE ForChannel(tk, tk.idx + 1, last, bnsn)

\* Lines 363-366: the alert that a blacklisted player came in.
BlacklistCheck(tk, last, bnsn) ==
  IF /\ Len(CurrentInfo(tk).blacklist_players) > 0
     /\ ~InList(bnsn, CurrentInfo(tk).server_name)
  THEN Res(Send(tk, tk.chans[tk.idx], "blacklist_alert", "await_366"), last, bnsn)
  ELSE ClearCheck(tk, last, bnsn)

\* IsSurge with < for the <= of line 358.
IsSurge_Strict(threshold, sbn) == threshold < sbn

\* Line 358: the surge test.
IsSurge(threshold, sbn) == threshold <= sbn

\* Lines 358-360: the surge alert.
SurgeCheck(tk, last, bnsn) ==
  IF IsSurge(player_sbn_count, CurrentInfo(tk).player_sbn_count)
  THEN Res(Send(tk, tk.chans[tk.idx], "surge_alert", "await_360"), last, bnsn)
  ELSE BlacklistCheck(tk, last, bnsn)

\* AfterNotify with `break` for the `continue` of line 343.
AfterNotify_Break(tk, last, bnsn) ==
  CASE tk.pc = "await_342" -> ForChannel(tk, Len(tk.chans) + 1, last, bnsn)
    [] tk.pc = "await_355" -> SurgeCheck(tk, last, bnsn)
    [] tk.pc = "await_360" -> BlacklistCheck(tk, last, bnsn)
    [] tk.pc = "await_366" ->
         ClearCheck(tk, last, Append(bnsn, CurrentInfo(tk).server_name))
    [] tk.pc = "await_372" ->
         IF InList(bnsn, CurrentInfo(tk).server_name)
         THEN ForChannel(tk, tk.idx + 1, last,
                         ListRemove(bnsn, CurrentInfo(tk).server_name))
         ELSE Res(OuterExcept(tk), last, bnsn)

\* The coroutine goes on after a send_message to a report channel.
AfterNotify(tk, last, bnsn) ==
  CASE tk.pc = "await_342" -> ForChannel(tk, tk.idx + 1, last, bnsn)
    [] tk.pc = "await_355" -> SurgeCheck(tk, last, bnsn)
    [] tk.pc = "await_360" -> BlacklistCheck(tk, last, bnsn)
    [] tk.pc = "await_366" ->
         \* line 367
         ClearCheck(tk, last, Append(bnsn, CurrentInfo(tk).server_name))
    [] tk.pc = "await_372" ->
         \* line 373: list.remove raises ValueError when the name is gone
         IF InList(bnsn, CurrentInfo(tk).server_name)
         THEN ForChannel(tk, tk.idx + 1, last,
                         ListRemove(bnsn, CurrentInfo(tk).server_name))
         ELSE Res(OuterExcept(tk), last, bnsn)

\* The coroutine goes on after the send_message of an error report: the
\* sleep of line 291, 299 or 384, which raises on a delay that is no number.
AfterErrorSent(tk) ==
  CASE tk.pc = "await_290" ->
         IF watch_interval.class = "int" THEN [tk EXCEPT !.pc = "await_291"]
         ELSE InnerExcept(tk)
    [] tk.pc = "await_298" ->
         IF watch_interval.class = "int" THEN [tk EXCEPT !.pc = "await_299"]
         ELSE OuterExcept(tk)
    [] tk.pc = "await_382" -> Sleep384(tk)

\* LoopTop with config.last_servers_info emptied by a fetch that got nothing.
LoopTop_ForgetsOnEmpty(started, f, last, bnsn) ==
  IF ~started THEN Res(FreeTask("returned"), last, bnsn)
  ELSE LET tk == [FreeTask("fetch") EXCEPT !.feed = f, !.prev = Counts(last), !.bl = blacklist]
       IN CASE f = "exc" -> Res(InnerExcept(tk), last, bnsn)
            [] f = "empty" -> Res(Send(tk, Origin, "json_empty", "await_290"), EmptyDict, bnsn)
            [] f = "bad" -> Res(OuterExcept(tk), last, bnsn)
            [] OTHER ->
                 ForChannel([tk EXCEPT !.info = ServersInfo(Grids(f), last, EmptyDict),
                                       !.chans = channels],
                            1, last, bnsn)

\* Lines 281-337: the loop test and one tick up to its first await, the
\* web service answering with f.
LoopTop(started, f, last, bnsn) ==
  IF ~started THEN Res(FreeTask("returned"), last, bnsn)
  ELSE LET tk == [FreeTask("fetch") EXCEPT !.feed = f, !.prev = Counts(last), !.bl = blacklist]
       IN CASE f = "exc" -> Res(InnerExcept(tk), last, bnsn)
            [] f = "empty" -> Res(Send(tk, Origin, "json_empty", "await_290"), last, bnsn)
            [] f = "bad" -> Res(OuterExcept(tk), last, bnsn)
            [] OTHER ->
                 ForChannel([tk EXCEPT !.info = ServersInfo(Grids(f), last, EmptyDict),
                                       !.chans = channels],
                            1, last, bnsn)

\* One step of coroutine t ended in r.
Becomes(t, r) ==
  /\ task' = [task EXCEPT ![t] = r.tk]
  /\ last_servers_info' = r.last
  /\ blacklist_notice_server_names' = r.bnsn
  /\ reply' = Quiet
  /\ UNCHANGED pending

\* StartResume with the snapshot and the alert list emptied by line 280.
StartResume_Fresh(t, bodies) ==
  /\ task[t].pc = "await_278"
  /\ is_watch_started' = TRUE
  /\ \E f \in bodies : Becomes(t, LoopTop(TRUE, f, EmptyDict, <<>>))
  /\ UNCHANGED <<watch_interval, player_sbn_count, blacklist, channels>>

\* Line 280 and the first tick: the "watch started" notice has been sent.
StartResume(t, bodies) ==
  /\ task[t].pc = "await_278"
  /\ is_watch_started' = TRUE
  /\ \E f \in bodies :
       Becomes(t, LoopTop(TRUE, f, last_servers_info, blacklist_notice_server_names))
  /\ UNCHANGED <<watch_interval, player_sbn_count, blacklist, channels>>

\* asyncio.sleep is over: `continue` or the end of the loop body, then the
\* loop test and the next tick.
Wake(t, bodies) ==
  /\ task[t].pc \in SleepPcs
  /\ \E f \in bodies :
       Becomes(t, LoopTop(is_watch_started, f, last_servers_info,
                          blacklist_notice_server_names))
  /\ UNCHANGED <<is_watch_started, watch_interval, player_sbn_count, blacklist, channels>>

\* The error report of a tick has been sent: the tick's sleep.
ErrorSent(t) ==
  /\ task[t].pc \in ErrorSentPcs
  /\ Becomes(t, Res(AfterErrorSent(task[t]), last_servers_info,
                    blacklist_notice_server_names))
  /\ UNCHANGED <<is_watch_started, watch_interval, player_sbn_count, blacklist, channels>>

\* A message to a report channel has been sent: the rest of the policy.
Notified(t) ==
  /\ task[t].pc \in NotifyPcs
  /\ Becomes(t, AfterNotify(task[t], last_servers_info, blacklist_notice_server_names))
  /\ UNCHANGED <<is_watch_started, watch_interval, player_sbn_count, blacklist, channels>>

\* ------------------------------------------------------------ command handlers
\* Texts typed in the channel Origin.
Text_start == <<"/","s","t","a","r","t">>
Text_stop == <<"/","s","t","o","p">>
Text_add_bl == <<"/","a","d","d"," ","b","l"," ","e","v","i","L">>
Text_set_world == <<"/","s","e","t"," ","w","o","r","l","d"," ","N","A">>
Text_set_interval_45 == <<"/","s","e","t"," ","i","n","t","e","r","v","a","l"," ","4","5">>
Text_set_interval_7 == <<"/","s","e","t"," ","i","n","t","e","r","v","a","l"," ","7">>
Text_set_player_count_5 == <<"/","s","e","t"," ","p","l","a","y","e","r","_","c","o","u","n","t"," ","5">>
Text_set_player_count_1 == <<"/","s","e","t"," ","p","l","a","y","e","r","_","c","o","u","n","t"," ","1">>
Text_set_player_count_3 == <<"/","s","e","t"," ","p","l","a","y","e","r","_","c","o","u","n","t"," ","3">>
Text_set_player_count_minus2 == <<"/","s","e","t"," ","p","l","a","y","e","r","_","c","o","u","n","t"," ","-","2">>
\* /set interval with the fullwidth digits 4 and 5, /set player_count 1_0
\* and /set player_count with a tab before 7.
Text_set_interval_wide45 == <<"/","s","e","t"," ","i","n","t","e","r","v","a","l"," ","U+FF14","U+FF15">>
Text_set_player_count_1_0 == <<"/","s","e","t"," ","p","l","a","y","e","r","_","c","o","u","n","t"," ","1","_","0">>
Text_set_player_count_tab7 == <<"/","s","e","t"," ","p","l","a","y","e","r","_","c","o","u","n","t"," ","\t","7">>
Text_add_server_B2 == <<"/","a","d","d"," ","s","e","r","v","e","r"," ","b","2">>
Text_del_server_B2 == <<"/","d","e","l"," ","s","e","r","v","e","r"," ","B","2">>
Text_status == <<"/","s","t","a","t","u","s">>
Text_help == <<"/","?">>
\* Texts with a malformed or missing argument.
Text_start_now == <<"/","s","t","a","r","t"," ","n","o","w">>
Text_stop_now == <<"/","s","t","o","p"," ","n","o","w">>
Text_add_bl_bare == <<"/","a","d","d"," ","b","l">>
Text_set_interval_abc == <<"/","s","e","t"," ","i","n","t","e","r","v","a","l"," ","a","b","c">>
Text_set_player_count_abc == <<"/","s","e","t"," ","p","l","a","y","e","r","_","c","o","u","n","t"," ","a","b","c">>
Text_set_world_JP == <<"/","s","e","t"," ","w","o","r","l","d"," ","J","P">>
Text_add_server_Z9 == <<"/","a","d","d"," ","s","e","r","v","e","r"," ","Z","9">>
Text_del_server_Z9 == <<"/","d","e","l"," ","s","e","r","v","e","r"," ","Z","9">>
Text_del_bl_bare == <<"/","d","l"," ","b","l">>
Text_list_bl_all == <<"/","l","i","s","t"," ","b","l"," ","a","l","l">>
Text_status_now == <<"/","s","t","a","t","u","s"," ","n","o","w">>
Text_fuck_bare == <<"/","f","u","c","k">>
Text_help_me == <<"/","?"," ","m","e">>
\* Texts that are no command.
Text_bogus == <<"/","b","o","g","u","s">>
Text_hello == <<"h","e","l","l","o">>

\* CommandManager.execute picks command c for the text.
Selected(content, c) == call_cmd(content) # 0 /\ CmdList[call_cmd(content)] = c

\* utils.exists_channel(message.server, args): the report channel of that
\* name, compared without case.
exists_channel(args) == \E i \in DOMAIN channels : Upper(channels[i]) = Upper(args)

\* config.add_blacklist / config.del_blacklist
add_blacklist(bl, name) == bl \cup {name}
del_blacklist(bl, name) == bl \ {name}

\* valid_custom of each command class: the text of the refusal, or "None".
valid_custom(c, message, args) ==
  CASE c.id = "start" ->
         IF is_watch_started THEN "already_running" ELSE "None"
    [] c.id \in {"add_bl", "del_bl"} ->
         IF args = <<>> THEN "need_player_name" ELSE "None"
    [] c.id = "add_server" ->
         IF args = <<>> \/ Upper(args) \notin SERVER_NAMES THEN "need_server_name"
         ELSE IF exists_channel(args) THEN "already_watched"
         ELSE "None"
    [] c.id = "del_server" ->
         IF args = <<>> \/ Len(args) # 2 \/ Upper(args) \notin SERVER_NAMES
         THEN "need_server_name"
         ELSE IF ~exists_channel(args) THEN "not_watched"
         ELSE "None"
    [] c.id = "set_world" ->
         IF args = <<>> THEN "need_world"
         ELSE IF args # <<"N", "A">> /\ args # <<"E", "U">> THEN "need_world"
         ELSE "None"
    [] c.id = "set_interval" ->
         IF args = <<>> \/ ~IsDecimal(args) THEN "need_number" ELSE "None"
    [] c.id = "set_player_count" ->
         IF args = <<>> THEN "need_count" ELSE "None"
    [] OTHER -> "None"

\* Command.execute, lines 111-129: what it sends when it does not run the
\* command, and <<>> when it goes on to execute_cmd.
Refusal(c, message) ==
  IF is_cmd_help(c, message) THEN <<Sent("usage", c.id)>>
  ELSE IF ~is_valid(c, message) THEN <<Sent("incorrect_usage", c.id)>>
  ELSE IF valid_custom(c, message, ArgsOf(c, message)) # "None"
       THEN <<Sent(valid_custom(c, message, ArgsOf(c, message)), c.id)>>
       ELSE <<>>

\* Command.execute returns False before execute_cmd.
Refused(c, content) ==
  /\ reply' = Refusal(c, Message(content))
  /\ UNCHANGED <<config, channels, task, pending>>

\* The slot a new StartCommand.execute coroutine takes: the lowest unused one.
\* A slot is used once, so `slots` bounds the /start messages of a behaviour.
FreeSlot(slots) ==
  CHOOSE t \in slots : task[t].pc = "idle" /\ \A u \in slots : task[u].pc = "idle" => t <= u

\* StartCommand.execute, lines 276-278: it overrides Command.execute, so the
\* text is neither validated nor checked for help; the coroutine sends the
\* notice and is suspended there.
StartCommand_execute(texts, slots) ==
  \E m \in texts :
    /\ Selected(m, StartCommand)
    /\ \E t \in slots : task[t].pc = "idle"
    /\ task' = [task EXCEPT ![FreeSlot(slots)] = FreeTask("await_278")]
    /\ reply' = <<Sent("watch_started", "start")>>
    /\ UNCHANGED <<config, channels, pending>>

\* StopCommand.execute_cmd, through Command.execute.
StopCommand_execute(texts) ==
  \E m \in texts :
    /\ Selected(m, StopCommand)
    /\ IF Refusal(StopCommand, Message(m)) # <<>> THEN Refused(StopCommand, m)
       ELSE /\ is_watch_started' = FALSE
            /\ reply' = <<Sent("watch_stopped", "stop")>>
            /\ UNCHANGED <<watch_interval, player_sbn_count, blacklist, last_servers_info,
                           blacklist_notice_server_names, channels, task, pending>>

\* AddBlackListCommand.execute_cmd, through Command.execute.
AddBlackListCommand_execute(texts) ==
  \E m \in texts :
    /\ Selected(m, AddBlCommand)
    /\ IF Refusal(AddBlCommand, Message(m)) # <<>> THEN Refused(AddBlCommand, m)
       ELSE /\ blacklist' = add_blacklist(blacklist, ArgsOf(AddBlCommand, Message(m)))
            /\ reply' = <<Sent("blacklist_added", "add_bl")>>
            /\ UNCHANGED <<is_watch_started, watch_interval, player_sbn_count,
                           last_servers_info, blacklist_notice_server_names, channels, task,
                           pending>>

\* DelBlackListCommand.execute_cmd, through Command.execute.
DelBlackListCommand_execute(texts) ==
  \E m \in texts :
    /\ Selected(m, DelBlCommand)
    /\ IF Refusal(DelBlCommand, Message(m)) # <<>> THEN Refused(DelBlCommand, m)
       ELSE /\ blacklist' = del_blacklist(blacklist, ArgsOf(DelBlCommand, Message(m)))
            /\ reply' = <<Sent("blacklist_deleted", "del_bl")>>
            /\ UNCHANGED <<is_watch_started, watch_interval, player_sbn_count,
                           last_servers_info, blacklist_notice_server_names, channels, task,
                           pending>>

\* An execute_cmd coroutine suspended in the await of line `at`: the
\* command, the channel name or argument it holds, and its local int_val.
Suspended(of, at, arg, int_val) == [of |-> of, pc |-> at, arg |-> arg, int_val |-> int_val]

\* Coroutine h is suspended / is suspended no longer.
Suspend(h) ==
  /\ BagCardinality(pending) < MaxPending
  /\ pending' = pending (+) SetToBag({h})
Resume(h) == pending' = pending (-) SetToBag({h})

\* AddServerCommand.execute_cmd, through Command.execute, up to the await
\* of create_channel on line 490: the channel is not made yet.
AddServerCommand_execute(texts) ==
  \E m \in texts :
    /\ Selected(m, AddServerCommand)
    /\ IF Refusal(AddServerCommand, Message(m)) # <<>> THEN Refused(AddServerCommand, m)
       ELSE /\ Suspend(Suspended("add_server", "await_490",
                                  Upper(ArgsOf(AddServerCommand, Message(m))), 0))
            /\ reply' = Quiet
            /\ UNCHANGED <<config, channels, task>>

\* Lines 490-493: create_channel has made the channel; the notice.
AddServerCommand_resume ==
  \E h \in BagToSet(pending) :
    /\ h.pc = "await_490"
    /\ Resume(h)
    /\ channels' = Append(channels, h.arg)
    /\ reply' = <<Sent("channel_added", "add_server")>>
    /\ UNCHANGED <<config, task>>

\* utils.exists_channel(message.server, args), line 517: the first report
\* channel of that name, compared without case.
found_channel(args) ==
  channels[CHOOSE i \in DOMAIN channels :
             /\ Upper(channels[i]) = Upper(args)
             /\ \A j \in 1..(i - 1) : Upper(channels[j]) # Upper(args)]

\* DelServerCommand.execute_cmd, through Command.execute, up to the await
\* of delete_channel on line 518: the channel is still there.
DelServerCommand_execute(texts) ==
  \E m \in texts :
    /\ Selected(m, DelServerCommand)
    /\ IF Refusal(DelServerCommand, Message(m)) # <<>> THEN Refused(DelServerCommand, m)
       ELSE /\ Suspend(Suspended("del_server", "await_518",
                                  found_channel(ArgsOf(DelServerCommand, Message(m))), 0))
            /\ reply' = Quiet
            /\ UNCHANGED <<config, channels, task>>

\* The channel object of a channel that delete_channel has deleted: it is no
\* channel of the guild any more.
Deleted == <<>>

\* The suspended coroutines once the channel ch is deleted: those of `rest`
\* that hold ch, the first channel of its name, hold a deleted channel.
HoldersOfDeleted(rest, ch) ==
  LET holds(r) == r.of = "del_server" /\ r.arg = ch
      now(r) == IF holds(r) THEN [r EXCEPT !.arg = Deleted] ELSE r
  IN [r \in {now(q) : q \in BagToSet(rest)} |->
        (IF holds(r) THEN 0 ELSE CopiesIn(r, rest))
        + (IF r.of = "del_server" /\ r.arg = Deleted
           THEN CopiesIn([r EXCEPT !.arg = ch], rest) ELSE 0)]

\* Lines 518-521: delete_channel has deleted the channel; the notice. For a
\* channel that is deleted already delete_channel raises, and nothing is
\* sent.
DelServerCommand_resume ==
  \E h \in BagToSet(pending) :
    /\ h.pc = "await_518"
    /\ IF h.arg # Deleted
       THEN /\ channels' = ListRemove(channels, h.arg)
            /\ pending' = HoldersOfDeleted(pending (-) SetToBag({h}), h.arg)
            /\ reply' = <<Sent("channel_deleted", "del_server")>>
       ELSE /\ channels' = channels
            /\ Resume(h)
            /\ reply' = <<Sent("NotFound", "del_server")>>
    /\ UNCHANGED <<config, task>>

\* SetWatchWorldCommand.execute_cmd, through Command.execute: line 564
\* assigns the argument to config.watch_interval.
SetWatchWorldCommand_execute(texts) ==
  \E m \in texts :
    /\ Selected(m, SetWorldCommand)
    /\ IF Refusal(SetWorldCommand, Message(m)) # <<>> THEN Refused(SetWorldCommand, m)
       ELSE /\ watch_interval' = PyStr(ArgsOf(SetWorldCommand, Message(m)))
            /\ reply' = <<Sent("world_set", "set_world")>>
            /\ UNCHANGED <<is_watch_started, player_sbn_count, blacklist, last_servers_info,
                           blacklist_notice_server_names, channels, task, pending>>

\* AtLeast without the tests of lines 589 and 618.
AtLeast_Unclamped(least, n) == n

\* Lines 588-592 and 617-621: the value stored for an argument n.
AtLeast(least, n) == IF n < least THEN least ELSE n

\* SetWatchIntervalCommand.execute_cmd, through Command.execute: a value of
\* at least 30 is stored at once; for a lower one the coroutine is suspended
\* in the send of line 591, before anything is stored.
SetWatchIntervalCommand_execute(texts) ==
  \E m \in texts :
    /\ Selected(m, SetIntervalCommand)
    /\ IF Refusal(SetIntervalCommand, Message(m)) # <<>> THEN Refused(SetIntervalCommand, m)
       ELSE LET int_val == IntOf(ArgsOf(SetIntervalCommand, Message(m)))
            IN IF int_val < MinInterval
               THEN /\ Suspend(Suspended("set_interval", "await_591", <<>>, int_val))
                    /\ reply' = <<Sent("below_least", "set_interval")>>
                    /\ UNCHANGED <<config, channels, task>>
               ELSE /\ watch_interval' = PyInt(AtLeast(MinInterval, int_val))
                    /\ reply' = <<Sent("interval_set", "set_interval")>>
                    /\ UNCHANGED <<is_watch_started, player_sbn_count, blacklist,
                                   last_servers_info, blacklist_notice_server_names,
                                   channels, task, pending>>

\* Lines 592-596: the notice of line 591 has been sent; the least interval
\* is stored.
SetWatchIntervalCommand_resume ==
  \E h \in BagToSet(pending) :
    /\ h.pc = "await_591"
    /\ Resume(h)
    /\ watch_interval' = PyInt(AtLeast(MinInterval, h.int_val))
    /\ reply' = <<Sent("interval_set", "set_interval")>>
    /\ UNCHANGED <<is_watch_started, player_sbn_count, blacklist, last_servers_info,
                   blacklist_notice_server_names, channels, task>>

\* SetPlayerSbnCountCommand.execute_cmd, through Command.execute: int(args)
\* raises ValueError on an argument that is no number, before anything is
\* stored or sent; a value of at least 3 is stored at once; for a lower one
\* the coroutine is suspended in the send of line 620.
SetPlayerSbnCountCommand_execute(texts) ==
  \E m \in texts :
    /\ Selected(m, SetPlayerCountCommand)
    /\ IF Refusal(SetPlayerCountCommand, Message(m)) # <<>>
       THEN Refused(SetPlayerCountCommand, m)
       ELSE IF ~IntParses(ArgsOf(SetPlayerCountCommand, Message(m)))
       THEN /\ reply' = <<Sent("ValueError", "set_player_count")>>
            /\ UNCHANGED <<config, channels, task, pending>>
       ELSE LET int_val == IntOf(ArgsOf(SetPlayerCountCommand, Message(m)))
            IN IF int_val < MinPlayerSbnCount
               THEN /\ Suspend(Suspended("set_player_count", "await_620", <<>>, int_val))
                    /\ reply' = <<Sent("below_least", "set_player_count")>>
                    /\ UNCHANGED <<config, channels, task>>
               ELSE /\ player_sbn_count' = AtLeast(MinPlayerSbnCount, int_val)
                    /\ reply' = <<Sent("player_count_set", "set_player_count")>>
                    /\ UNCHANGED <<is_watch_started, watch_interval, blacklist,
                                   last_servers_info, blacklist_notice_server_names,
                                   channels, task, pending>>

\* Lines 621-625: the notice of line 620 has been sent; the least threshold
\* is stored.
SetPlayerSbnCountCommand_resume ==
  \E h \in BagToSet(pending) :
    /\ h.pc = "await_620"
    /\ Resume(h)
    /\ player_sbn_count' = AtLeast(MinPlayerSbnCount, h.int_val)
    /\ reply' = <<Sent("player_count_set", "set_player_count")>>
    /\ UNCHANGED <<is_watch_started, watch_interval, blacklist, last_servers_info,
                   blacklist_notice_server_names, channels, task>>

\* ListBlackListCommand and StatusCommand: execute_cmd only sends, once.
ReportCommand_execute(texts) ==
  \E m \in texts, c \in {ListBlCommand, StatusCommand} :
    /\ Selected(m, c)
    /\ IF Refusal(c, Message(m)) # <<>> THEN Refused(c, m)
       ELSE /\ reply' = <<Sent("report", c.id)>>
            /\ UNCHANGED <<config, channels, task, pending>>

\* FuckYeahCommand.execute_cmd, through Command.execute, up to the await of
\* line 643: the first of its two messages is sent.
FuckYeahCommand_execute(texts) ==
  \E m \in texts :
    /\ Selected(m, FuckCommand)
    /\ IF Refusal(FuckCommand, Message(m)) # <<>> THEN Refused(FuckCommand, m)
       ELSE /\ Suspend(Suspended("fuck", "await_643", <<>>, 0))
            /\ reply' = <<Sent("yeah", "fuck")>>
            /\ UNCHANGED <<config, channels, task>>

\* Lines 644-645: the second message, the link.
FuckYeahCommand_resume ==
  \E h \in BagToSet(pending) :
    /\ h.pc = "await_643"
    /\ Resume(h)
    /\ reply' = <<Sent("link", "fuck")>>
    /\ UNCHANGED <<config, channels, task>>

\* HelpCommand.execute(self, message, args), called by CommandManager.execute
\* as call_cmd.execute(message): TypeError, nothing is sent.
HelpCommand_execute(texts) ==
  \E m \in texts :
    /\ Selected(m, HelpCommand)
    /\ reply' = <<Sent("TypeError", "help")>>
    /\ UNCHANGED <<config, channels, task, pending>>

\* NoCommand without the test of line 215.
NoCommand_AnyText(texts) ==
  \E m \in texts :
    /\ call_cmd(m) = 0
    /\ reply' = <<Sent("incorrect_usage", "help")>>
    /\ UNCHANGED <<config, channels, task, pending>>

\* CommandManager.execute, lines 215-228: a text that is no command.
NoCommand(texts) ==
  \E m \in texts :
    /\ call_cmd(m) = 0
    /\ reply' = (IF StartsWith(m, <<"/">>) THEN <<Sent("incorrect_usage", "help")>>
                 ELSE Quiet)
    /\ UNCHANGED <<config, channels, task, pending>>

\* ------------------------------------------------------------ specifications
\* Spec: the watch sessions. Up to MaxLoops /start messages, /stop and the
\* /set commands arrive in any order while the loops run; the web service
\* fails, answers nothing, answers garbage or answers F1; A1 is the one
\* report channel.
SessionTexts == {Text_start, Text_stop, Text_set_world}
SessionBodies == {"exc", "empty", "bad", "F1"}

Init == InitWith(<<A1>>)

Next ==
  \/ StartCommand_execute(SessionTexts, Tasks)
  \/ StopCommand_execute(SessionTexts)
  \/ SetWatchWorldCommand_execute(SessionTexts)
  \/ \E t \in Tasks : StartResume(t, SessionBodies)
  \/ \E t \in Tasks : Wake(t, SessionBodies)
  \/ \E t \in Tasks : ErrorSent(t)
  \/ \E t \in Tasks : Notified(t)

Spec == Init /\ [][Next]_vars

\* SpecPolicy: the ticks of a watch. Up to MaxPolicyLoops /start messages
\* arrive; the web service answers F1, F2, F3, garbage or nothing; a blacklist
\* entry is added and the surge threshold changes while the loops run; the
\* report channels are C3, which has no grid in the feed, and A1.
PolicyTexts == {Text_start, Text_add_bl, Text_set_player_count_5,
                Text_set_player_count_3}
PolicyBodies == {"empty", "bad"} \cup FeedIds

InitPolicy == InitWith(<<C3, A1>>)

NextPolicy ==
  \/ StartCommand_execute(PolicyTexts, PolicyTasks)
  \/ AddBlackListCommand_execute(PolicyTexts)
  \/ SetPlayerSbnCountCommand_execute(PolicyTexts)
  \/ \E t \in PolicyTasks : StartResume(t, PolicyBodies)
  \/ \E t \in PolicyTasks : Wake(t, PolicyBodies)
  \/ \E t \in PolicyTasks : ErrorSent(t)
  \/ \E t \in PolicyTasks : Notified(t)

SpecPolicy == InitPolicy /\ [][NextPolicy]_vars

\* FairSpec: Spec with the asyncio event loop's scheduling: a coroutine whose
\* await has completed (the message is sent, the sleep is over) is resumed.
\* No command message is ever bound to arrive.
Fairness ==
  \A t \in Tasks :
    /\ WF_vars(StartResume(t, SessionBodies))
    /\ WF_vars(Wake(t, SessionBodies))
    /\ WF_vars(ErrorSent(t))
    /\ WF_vars(Notified(t))

FairSpec == Spec /\ Fairness

\* CommandManager.execute on one of `texts`: the handler of the command it
\* selects, or the answer to a text that is no command.
Handles(texts, slots) ==
  \/ StartCommand_execute(texts, slots)
  \/ StopCommand_execute(texts)
  \/ AddBlackListCommand_execute(texts)
  \/ DelBlackListCommand_execute(texts)
  \/ AddServerCommand_execute(texts)
  \/ DelServerCommand_execute(texts)
  \/ SetWatchWorldCommand_execute(texts)
  \/ SetWatchIntervalCommand_execute(texts)
  \/ SetPlayerSbnCountCommand_execute(texts)
  \/ ReportCommand_execute(texts)
  \/ FuckYeahCommand_execute(texts)
  \/ HelpCommand_execute(texts)
  \/ NoCommand(texts)

\* The command specifications have one slot: one /start text is handled.
CommandTasks == {1}
\* The web service answers nothing or F1.
CommandBodies == {"empty", "F1"}

\* The steps of the watch loop in the command specifications.
LoopSteps ==
  \/ \E t \in CommandTasks : StartResume(t, CommandBodies)
  \/ \E t \in CommandTasks : Wake(t, CommandBodies)
  \/ \E t \in CommandTasks : ErrorSent(t)
  \/ \E t \in CommandTasks : Notified(t)

\* SpecCommands: well-formed /set interval and /set player_count texts
\* arrive in any order, up to MaxPending of their handlers suspended at one
\* time, with /start and /stop, while the loop ticks; A1 is the channel.
CommandTexts == {Text_start, Text_stop,
                 Text_set_interval_45, Text_set_interval_7, Text_set_interval_wide45,
                 Text_set_player_count_5, Text_set_player_count_1,
                 Text_set_player_count_minus2, Text_set_player_count_1_0,
                 Text_set_player_count_tab7}

NextCommands ==
  \/ StartCommand_execute(CommandTexts, CommandTasks)
  \/ StopCommand_execute(CommandTexts)
  \/ SetWatchIntervalCommand_execute(CommandTexts)
  \/ SetWatchIntervalCommand_resume
  \/ SetPlayerSbnCountCommand_execute(CommandTexts)
  \/ SetPlayerSbnCountCommand_resume
  \/ LoopSteps

SpecCommands == Init /\ [][NextCommands]_vars

\* SpecDispatch: texts that select a command, the help text, a report
\* command and texts that are no command arrive in any order, with /start
\* and /stop, while the loop ticks; A1 is the channel.
DispatchTexts == {Text_start, Text_stop, Text_status, Text_help,
                  Text_set_interval_45, Text_set_interval_7,
                  Text_set_player_count_5, Text_bogus, Text_hello}

NextDispatch ==
  \/ StartCommand_execute(DispatchTexts, CommandTasks)
  \/ StopCommand_execute(DispatchTexts)
  \/ SetWatchIntervalCommand_execute(DispatchTexts)
  \/ SetWatchIntervalCommand_resume
  \/ SetPlayerSbnCountCommand_execute(DispatchTexts)
  \/ ReportCommand_execute(DispatchTexts)
  \/ HelpCommand_execute(DispatchTexts)
  \/ NoCommand(DispatchTexts)
  \/ LoopSteps

SpecDispatch == Init /\ [][NextDispatch]_vars

\* SpecMalformed: texts that select a command but carry a malformed or
\* missing argument arrive in any order, with /stop, /add bl eviL,
\* /set world NA and a text that is no command, while the loop ticks.
MalformedTexts == {Text_start_now, Text_stop_now, Text_add_bl_bare, Text_del_bl_bare,
                   Text_list_bl_all, Text_add_server_Z9, Text_del_server_Z9,
                   Text_status_now, Text_set_world_JP, Text_set_interval_abc,
                   Text_set_player_count_abc, Text_fuck_bare, Text_help_me}
MalformedSessionTexts == MalformedTexts \cup {Text_stop, Text_add_bl, Text_set_world,
                                              Text_bogus}

NextMalformed ==
  \/ Handles(MalformedSessionTexts, CommandTasks)
  \/ LoopSteps

SpecMalformed == Init /\ [][NextMalformed]_vars

\* SpecHelp: the help request of every registered command arrives in any
\* order, with /stop, /add bl eviL, /set world NA and a text that is no
\* command, while the loop ticks; /fuck /? runs the command, which is
\* suspended between its two messages.
HelpTexts == {CmdList[i].cmd \o <<" ", "/", "?">> : i \in DOMAIN CmdList}
HelpSessionTexts == HelpTexts \cup {Text_stop, Text_add_bl, Text_set_world, Text_bogus}

NextHelp ==
  \/ Handles(HelpSessionTexts, CommandTasks)
  \/ FuckYeahCommand_resume
  \/ LoopSteps

SpecHelp == Init /\ [][NextHelp]_vars

\* SpecChannels: /add server b2 and /del server B2 arrive in any order, up
\* to MaxPending of them suspended at one time, while a loop started by
\* /start reports F1 to the channels there are.
ChannelTexts == {Text_start, Text_add_server_B2, Text_del_server_B2}

NextChannels ==
  \/ StartCommand_execute(ChannelTexts, CommandTasks)
  \/ AddServerCommand_execute(ChannelTexts)
  \/ AddServerCommand_resume
  \/ DelServerCommand_execute(ChannelTexts)
  \/ DelServerCommand_resume
  \/ \E t \in CommandTasks : StartResume(t, {"F1"})
  \/ \E t \in CommandTasks : Wake(t, {"F1"})
  \/ \E t \in CommandTasks : Notified(t)

SpecChannels == Init /\ [][NextChannels]_vars

\* ------------------------------------------------------------ properties
\* Coroutine t is inside the while loop of StartCommand.execute.
Ticking(t) == task[t].pc \notin (FreePcs \cup StartPcs)

\* The last step handled a text that selected StartCommand / StopCommand.
StartHandled == reply # Quiet /\ reply[1].of = "start"
StopHandled == reply = <<Sent("watch_stopped", "stop")>>

\* C1: under every interleaving of start and stop requests with the yield
\* points of the watch loop, at most one watch loop is ticking at any time.
C1_AtMostOneLoop == Cardinality({t \in Tasks : Ticking(t)}) <= 1

\* C2: a start request handled while is_watch_started is true is a no-op: it
\* sends the "already running" notice and nothing else, starts no coroutine
\* and leaves the whole configuration unchanged.
C2_StartWhileRunningIsNoOp ==
  [][(is_watch_started /\ reply' # Quiet /\ reply'[1].of = "start")
       => /\ reply' = <<Sent("already_running", "start")>>
          /\ UNCHANGED <<config, task>>]_vars

\* A player's name contains the blacklist entry, not regarding case.
ContainsNoCase(name, entry) ==
  Find(Upper(name), Upper(entry)) # 0 - 1

\* The players of grid `name` in the body f.
PlayersOf(f, name) ==
  LET grids == Grids(f)
  IN grids[CHOOSE i \in DOMAIN grids : grids[i].grid = name].players

\* The matches of a player list against a blacklist: one per player and
\* entry the player's name contains.
MatchPairs(players, bl) ==
  {pe \in (DOMAIN players) \X bl : ContainsNoCase(players[pe[1]].name, pe[2])}

\* Coroutine t has reported a fetched snapshot to every channel.
TickReported(t) == task[t].pc = "await_384" /\ task[t].feed \in FeedIds

\* Coroutine t has sent `kind` to channel ch in its current tick.
HasSent(t, ch, kind) ==
  \E i \in DOMAIN task[t].log : task[t].log[i] = [to |-> ch, kind |-> kind]

\* C3: for a server with a report channel, the blacklist alert is sent on
\* the tick whose match list is not empty while the server is not recorded
\* as alerted, and the server is then recorded; the clear notice is sent on
\* the first later tick with no match, and the record is then dropped. So
\* when a tick has reported, a server with matching players is recorded as
\* alerted and one without is not, and an alert or a clear notice of the
\* tick agrees with the tick's matches.
C3_AlertFollowsMatches ==
  \A t \in AllTasks :
    TickReported(t) =>
      \A i \in DOMAIN task[t].chans :
        LET ch == task[t].chans[i]
            name == Upper(ch)
        IN name \in DOMAIN task[t].info =>
             LET present == MatchPairs(PlayersOf(task[t].feed, name), task[t].bl) # {}
             IN /\ present => InList(blacklist_notice_server_names, name)
                /\ ~present => ~InList(blacklist_notice_server_names, name)
                /\ HasSent(t, ch, "blacklist_alert") => present
                /\ HasSent(t, ch, "blacklist_clear") => ~present

\* C4: the blacklist_players a tick computes for a grid are exactly the
\* grid's players whose name contains a blacklist entry, not regarding
\* case, each once per entry it contains.
C4_MatchesAreBlacklisted ==
  \A t \in AllTasks :
    task[t].feed \in FeedIds =>
      \A name \in DOMAIN task[t].info :
        LET players == PlayersOf(task[t].feed, name)
            found == task[t].info[name].blacklist_players
            pairs == MatchPairs(players, task[t].bl)
        IN /\ Len(found) = Cardinality(pairs)
           /\ {found[i] : i \in DOMAIN found} = {players[pe[1]] : pe \in pairs}

\* The step appends a message of `kind` to the log of coroutine t.
Sends(t, kind) ==
  /\ task'[t].log # task[t].log
  /\ task'[t].log # <<>>
  /\ task'[t].log[Len(task'[t].log)].kind = kind

\* C5: in a tick that fetched a snapshot, for a report channel whose server
\* is in it, the surge alert follows the routine report iff the server's
\* player_sbn_count is at least config.player_sbn_count, equality included;
\* the surge alert is sent at no other point.
C5_SurgeIffAtThreshold ==
  [][\A t \in AllTasks :
       /\ (task[t].pc = "await_355" /\ task'[t] # task[t])
            => (Sends(t, "surge_alert")
                  <=> CurrentInfo(task[t]).player_sbn_count >= player_sbn_count)
       /\ Sends(t, "surge_alert")
            => /\ task[t].pc = "await_355"
               /\ task'[t].log = Append(task[t].log,
                                        [to |-> task[t].chans[task[t].idx],
                                         kind |-> "surge_alert"])]_vars

\* The surge alert went out for A1 at 15 players after 10, a rise of 5,
\* with the threshold at 5.
C5_Witness ==
  \E t \in AllTasks :
    /\ task[t].pc = "await_360"
    /\ task[t].prev = (A1 :> 10)
    /\ CurrentInfo(task[t]).server_name = A1
    /\ CurrentInfo(task[t]).player_count = 15
    /\ CurrentInfo(task[t]).player_sbn_count = 5
    /\ player_sbn_count = 5

\* C6: player_sbn_count of every grid of a new snapshot is 0 when the last
\* snapshot is empty or has no such grid, and the grid's player count less
\* the count in the last snapshot otherwise (below 0 when players left).
C6_DeltaFromLastSnapshot ==
  \A t \in AllTasks :
    task[t].feed \in FeedIds =>
      /\ DOMAIN task[t].info =
           {Grids(task[t].feed)[i].grid : i \in DOMAIN Grids(task[t].feed)}
      /\ \A name \in DOMAIN task[t].info :
           task[t].info[name].player_sbn_count =
             IF name \in DOMAIN task[t].prev
             THEN Len(PlayersOf(task[t].feed, name)) - task[t].prev[name]
             ELSE 0

\* A tick read F1 (A1 at 10, no B2) as the last snapshot and fetched F3
\* (A1 at 12, B2 at 3): A1 rose by 2 and B2, new in the feed, by 0.
C6_Witness ==
  \E t \in AllTasks :
    /\ task[t].feed = "F3"
    /\ task[t].prev = (A1 :> 10)
    /\ task[t].info[A1].player_sbn_count = 2
    /\ task[t].info[B2].player_sbn_count = 0

\* C7: a watch loop leaves its while loop only with is_watch_started false:
\* neither a failed fetch nor an exception anywhere in a tick nor a value a
\* command wrote to the configuration ends it while the flag is true.
C7_ExitsOnlyWhenStopped ==
  [][\A t \in AllTasks :
       (task[t].pc \notin FreePcs /\ task'[t].pc \in FreePcs) => ~is_watch_started']_vars

\* C8: once a stop request has set is_watch_started to false, either a
\* later start request arrives or every watch loop comes to its end; and
\* the "watch stopped" notice is the stop handler's, never a loop's.
C8_StopEndsTheLoops ==
  /\ [](StopHandled => <>(StartHandled \/ \A t \in AllTasks : ~Live(t)))
  /\ [](\A t \in AllTasks : \A i \in DOMAIN task[t].log :
          task[t].log[i].kind # "watch_stopped")

\* C9: a tick whose fetch failed (requests.get raised, or the body was
\* empty) sends one error notice, to the channel of the /start message,
\* builds no snapshot and then sleeps until the next tick.
C9_FailedFetchOneNotice ==
  \A t \in AllTasks :
    task[t].feed \in {"exc", "empty"} =>
      /\ task[t].log \in {<<[to |-> Origin, kind |-> "connect_error"]>>,
                          <<[to |-> Origin, kind |-> "json_empty"]>>}
      /\ task[t].pc \in {"await_290", "await_291", "await_298", "await_299"}
      /\ task[t].info = EmptyDict

\* C10: in every reachable state config.watch_interval is an integer of at
\* least 30 and config.player_sbn_count an integer of at least 3.
C10_ConfigWithinLimits ==
  /\ watch_interval.class = "int"
  /\ watch_interval.int >= MinInterval
  /\ player_sbn_count >= MinPlayerSbnCount

\* The larger of two integers.
Max(a, b) == IF a >= b THEN a ELSE b

\* The /set interval and /set player_count texts whose argument validation
\* accepts and int() reads, each with the integer it stands for.
IntervalArgs == {[text |-> Text_set_interval_45, n |-> 45],
                 [text |-> Text_set_interval_7, n |-> 7],
                 [text |-> Text_set_interval_wide45, n |-> 45]}
CountArgs == {[text |-> Text_set_player_count_5, n |-> 5],
              [text |-> Text_set_player_count_1, n |-> 1],
              [text |-> Text_set_player_count_minus2, n |-> 0 - 2],
              [text |-> Text_set_player_count_1_0, n |-> 10],
              [text |-> Text_set_player_count_tab7, n |-> 7]}

\* The handler of a /set text writes at once, or is suspended holding n: h
\* is the coroutine it has become.
Holds(h, of, n) == h.of = of /\ h.int_val = n /\ pending' = pending (+) SetToBag({h})

\* C11: for an integer argument n that validation accepts, /set interval n
\* sets config.watch_interval to max(n, 30) and /set player_count n sets
\* config.player_sbn_count to max(n, 3), at once or, for n below the least
\* value, when the handler goes on after its first notice; neither step
\* changes another field of the configuration.
C11_SetStoresAtLeastMinimum ==
  [][/\ \A a \in IntervalArgs :
          SetWatchIntervalCommand_execute({a.text})
            => \/ /\ watch_interval' = PyInt(Max(a.n, 30))
                  /\ UNCHANGED <<is_watch_started, player_sbn_count, blacklist,
                                 last_servers_info, blacklist_notice_server_names,
                                 pending>>
               \/ /\ a.n < 30
                  /\ \E h \in BagToSet(pending') : Holds(h, "set_interval", a.n)
                  /\ UNCHANGED config
     /\ \A a \in CountArgs :
          SetPlayerSbnCountCommand_execute({a.text})
            => \/ /\ player_sbn_count' = Max(a.n, 3)
                  /\ UNCHANGED <<is_watch_started, watch_interval, blacklist,
                                 last_servers_info, blacklist_notice_server_names,
                                 pending>>
               \/ /\ a.n < 3
                  /\ \E h \in BagToSet(pending') : Holds(h, "set_player_count", a.n)
                  /\ UNCHANGED config
     /\ \A h \in BagToSet(pending) :
          (pending' = pending (-) SetToBag({h}))
            => /\ h.of = "set_interval"
                    => /\ watch_interval' = PyInt(Max(h.int_val, 30))
                       /\ UNCHANGED <<is_watch_started, player_sbn_count, blacklist,
                                      last_servers_info, blacklist_notice_server_names>>
               /\ h.of = "set_player_count"
                    => /\ player_sbn_count' = Max(h.int_val, 3)
                       /\ UNCHANGED <<is_watch_started, watch_interval, blacklist,
                                      last_servers_info, blacklist_notice_server_names>>]_vars

\* /set interval 45 has just been handled with the threshold at 5, set by
\* /set player_count 5, while a watch loop sleeps.
C11_Witness ==
  /\ reply = <<Sent("interval_set", "set_interval")>>
  /\ watch_interval = PyInt(45)
  /\ player_sbn_count = 5
  /\ \E t \in AllTasks : task[t].pc = "await_384"

\* The messages coroutine t has sent to channel ch in its current tick.
SentTo(t, ch) == SelectSeq(task[t].log, LAMBDA msg : msg.to = ch)

\* C12: in a tick that fetched a snapshot, a report channel whose upper-cased
\* name is no grid of the snapshot gets one data-error notice and nothing
\* else; the step that sends the notice and the step after it leave the
\* name's entry in config.blacklist_notice_server_names as it is; and the
\* tick goes on to every other channel, which gets its routine report.
C12_ChannelWithoutGrid ==
  /\ [](\A t \in AllTasks :
         task[t].feed \in FeedIds =>
           \A i \in DOMAIN task[t].chans :
             LET ch == task[t].chans[i]
             IN IF Upper(ch) \notin DOMAIN task[t].info
                THEN SentTo(t, ch) = (IF i <= task[t].idx
                                      THEN <<[to |-> ch, kind |-> "data_error"]>>
                                      ELSE <<>>)
                ELSE (i < task[t].idx \/ TickReported(t))
                       => /\ SentTo(t, ch) # <<>>
                          /\ SentTo(t, ch)[1] = [to |-> ch, kind |-> "routine"])
  /\ [][\A t \in AllTasks :
          (Sends(t, "data_error") \/ (task[t].pc = "await_342" /\ task'[t] # task[t]))
            => LET name == IF Sends(t, "data_error")
                           THEN Upper(task'[t].chans[task'[t].idx])
                           ELSE Upper(task[t].chans[task[t].idx])
               IN InList(blacklist_notice_server_names', name)
                    <=> InList(blacklist_notice_server_names, name)]_vars

\* A tick on F1 has reported to the channels C3 and A1: C3, which is no
\* grid of F1, got the data-error notice and A1 its routine report.
C12_Witness ==
  \E t \in AllTasks :
    /\ TickReported(t)
    /\ task[t].feed = "F1"
    /\ task[t].chans = <<C3, A1>>
    /\ task[t].log = <<[to |-> C3, kind |-> "data_error"],
                       [to |-> A1, kind |-> "routine"]>>

\* The place of a message in the order of lines 353-373.
Rank(kind) ==
  CASE kind = "routine" -> 1
    [] kind = "surge_alert" -> 2
    [] kind = "blacklist_alert" -> 3
    [] kind = "blacklist_clear" -> 4
    [] OTHER -> 0

\* C13: in a tick that fetched a snapshot, the messages to a report channel
\* whose server is in the snapshot come in the order routine report, surge
\* alert, blacklist alert, clear notice, each at most once; the routine
\* report is the first and is always sent; the blacklist alert and the
\* clear notice are never both sent.
C13_MessagesInFixedOrder ==
  \A t \in AllTasks :
    task[t].feed \in FeedIds =>
      \A i \in DOMAIN task[t].chans :
        LET ch == task[t].chans[i]
            msgs == SentTo(t, ch)
        IN Upper(ch) \in DOMAIN task[t].info =>
             /\ \A j \in DOMAIN msgs : Rank(msgs[j].kind) > 0
             /\ \A j, k \in DOMAIN msgs :
                  j < k => Rank(msgs[j].kind) < Rank(msgs[k].kind)
             /\ msgs # <<>> => msgs[1].kind = "routine"
             /\ i <= task[t].idx => msgs # <<>>
             /\ i > task[t].idx => msgs = <<>>
             /\ ~(HasSent(t, ch, "blacklist_alert") /\ HasSent(t, ch, "blacklist_clear"))

\* A tick has reported F2 after F1: A1 got the routine report and then the
\* surge alert.
C13_Witness ==
  \E t \in AllTasks :
    /\ TickReported(t)
    /\ task[t].feed = "F2"
    /\ SentTo(t, A1) = <<[to |-> A1, kind |-> "routine"],
                         [to |-> A1, kind |-> "surge_alert"]>>

\* The texts a command sends with its usage text: the usage text alone
\* (line 112), after "the command is not correct" (line 116) or after the
\* refusal of valid_custom (line 123).
UsageKinds == {"usage", "incorrect_usage", "already_running", "need_player_name",
               "need_server_name", "already_watched", "not_watched", "need_world",
               "need_number", "need_count"}

\* The step sent a usage text and did nothing else.
OnlyUsage ==
  /\ reply' # Quiet
  /\ \A i \in DOMAIN reply' : reply'[i].kind \in UsageKinds
  /\ UNCHANGED <<config, channels, task, pending>>

\* C14: a text that selects a command but carries a malformed or missing
\* argument makes the command send its usage text and do nothing else: the
\* configuration is unchanged and no watch loop is started.
C14_MalformedShowsUsage ==
  [][\A m \in MalformedTexts : Handles({m}, CommandTasks) => OnlyUsage]_vars

\* C15: for every registered command, the text made of its command string,
\* a blank and /? makes the command send its usage text and not run: the
\* configuration is unchanged and no watch loop is started.
C15_HelpRequestShowsUsage ==
  [][\A c \in {CmdList[i] : i \in DOMAIN CmdList} :
       Handles({c.cmd \o <<" ", "/", "?">>}, CommandTasks) => OnlyUsage]_vars

\* The commands whose is_call succeeds on the text, by their place in the
\* registration order.
Matching(m) == {i \in DOMAIN CmdList : StartsWith(m, CmdList[i].cmd)}

\* C16: the handler that runs on a text is that of the first command in
\* registration order whose is_call succeeds on it; a text that starts with
\* "/" and that no command matches gets the help text and nothing else
\* happens; a text that does not start with "/" gets no answer and nothing
\* else happens.
C16_DispatchFirstMatch ==
  [][\A m \in DispatchTexts :
       Handles({m}, CommandTasks) =>
         IF m[1] # "/"
         THEN reply' = Quiet /\ UNCHANGED <<config, channels, task, pending>>
         ELSE IF Matching(m) = {}
         THEN /\ reply' = <<Sent("incorrect_usage", "help")>>
              /\ UNCHANGED <<config, channels, task, pending>>
         ELSE \E i \in Matching(m) :
                /\ \A j \in Matching(m) : i <= j
                /\ reply' # Quiet
                /\ \A k \in DOMAIN reply' : reply'[k].of = CmdList[i].id]_vars

\* /bogus has just been answered with the help text while a watch loop
\* sleeps, after /set interval 45 ran.
C16_Witness ==
  /\ reply = <<Sent("incorrect_usage", "help")>>
  /\ watch_interval = PyInt(45)
  /\ \E t \in AllTasks : task[t].pc = "await_384"

\* C17: a /stop handled while a tick is suspended in a send to a report
\* channel does not cut the tick short: the coroutine goes on to the next
\* message of the tick or, after the last one, stores the new snapshot in
\* config.last_servers_info and sleeps; a coroutine returns only from a
\* sleep, at the loop test.
C17_StopDoesNotCutTick ==
  [][\A t \in AllTasks :
       /\ (~is_watch_started /\ task[t].pc \in NotifyPcs /\ task'[t] # task[t])
            => /\ task'[t].pc \in NotifyPcs \cup {"await_384"}
               /\ task'[t].pc \in NotifyPcs => task'[t].idx >= task[t].idx
               /\ task'[t].pc = "await_384"
                    => /\ last_servers_info' = task[t].info
                       /\ \A i \in DOMAIN task[t].chans : SentTo(t, task[t].chans[i]) # <<>>
       /\ (~is_watch_started /\ Ticking(t) /\ task'[t].pc \in FreePcs)
            => task[t].pc \in SleepPcs /\ task'[t].pc = "returned"]_vars

\* C18: the watch loop yields to the dispatcher during its sleep and during
\* its fetch: a /stop can be handled while a coroutine sleeps, and the step
\* in which a coroutine passes the loop test ends with the coroutine
\* suspended in the fetch, the body not yet received, where a /stop can be
\* handled too.
C18_YieldsDuringFetch ==
  /\ [](\A t \in AllTasks :
         task[t].pc \in SleepPcs => ENABLED StopCommand_execute({Text_stop}))
  /\ [][\A t \in AllTasks :
          (/\ task[t].pc \in SleepPcs \cup StartPcs
           /\ task'[t] # task[t]
           /\ task'[t].pc \notin FreePcs)
            => task'[t].feed = "none"]_vars

\* The grids of the body f.
GridNames(f) == {Grids(f)[i].grid : i \in DOMAIN Grids(f)}

\* The messages with which a tick reports an exception or a failed fetch.
ErrorKinds == {"connect_error", "json_empty", "continue_warning"}

\* The step ends the reporting of coroutine t's tick: line 376 is reached.
EndsTick(t) ==
  /\ task'[t] # task[t]
  /\ task'[t].feed \in FeedIds
  /\ task'[t].pc \in {"await_384", "raised"}
  /\ \A i \in DOMAIN task'[t].log : task'[t].log[i].kind \notin ErrorKinds

\* C19: config.last_servers_info changes only in the step that ends a tick
\* in which no exception was raised, and it is then the tick's whole
\* snapshot, one entry for every grid of the feed, with or without a report
\* channel; every such step stores the snapshot; a step of a tick that
\* reports a failed fetch or an exception leaves it as it was.
C19_SnapshotOnlyOnSuccess ==
  [][/\ last_servers_info' # last_servers_info
          => \E t \in AllTasks :
               /\ EndsTick(t)
               /\ last_servers_info' = task'[t].info
               /\ DOMAIN last_servers_info' = GridNames(task'[t].feed)
     /\ \A t \in AllTasks :
          /\ EndsTick(t) => last_servers_info' = task'[t].info
          /\ (/\ task'[t] # task[t]
              /\ \E i \in DOMAIN task'[t].log : task'[t].log[i].kind \in ErrorKinds)
               => last_servers_info' = last_servers_info]_vars

\* A tick on F3 has ended after one on F1: the snapshot holds A1 and B2,
\* which has no report channel, and the tick had read A1 at 10.
C19_Witness ==
  \E t \in AllTasks :
    /\ TickReported(t)
    /\ task[t].feed = "F3"
    /\ task[t].prev = (A1 :> 10)
    /\ last_servers_info = task[t].info
    /\ DOMAIN last_servers_info = {A1, B2}
    /\ B2 \notin {Upper(task[t].chans[i]) : i \in DOMAIN task[t].chans}

\* C20: the /stop handler changes config.is_watch_started and nothing else
\* of the configuration; the /start handler changes nothing of it before
\* its first tick, and line 280 only sets the flag: the first tick after a
\* /stop and a /start reads the snapshot the last session left and counts
\* the change of every grid from it.
C20_StopAndStartKeepState ==
  [][/\ StopCommand_execute({Text_stop})
          => /\ ~is_watch_started'
             /\ UNCHANGED <<watch_interval, player_sbn_count, blacklist,
                            last_servers_info, blacklist_notice_server_names>>
     /\ StartCommand_execute({Text_start}, Tasks) => UNCHANGED config
     /\ \A t \in AllTasks :
          (task[t].pc = "await_278" /\ task'[t] # task[t])
            => /\ UNCHANGED <<watch_interval, player_sbn_count, blacklist>>
               /\ task'[t].prev = Counts(last_servers_info)
               /\ last_servers_info' # last_servers_info => EndsTick(t)
               /\ \A name \in DOMAIN task'[t].info :
                    task'[t].info[name].player_sbn_count =
                      IF name \in DOMAIN last_servers_info
                      THEN task'[t].info[name].player_count
                             - last_servers_info[name].player_count
                      ELSE 0]_vars

\* The first watch loop has returned after a /stop and the loop of the
\* second /start is in its first tick, which read the snapshot of the first
\* session: A1 at 10.
C20_Witness ==
  /\ task[1].pc = "returned"
  /\ task[2].pc = "await_355"
  /\ task[2].feed = "F1"
  /\ task[2].prev = (A1 :> 10)
  /\ task[2].info[A1].player_sbn_count = 0
  /\ last_servers_info # EmptyDict

====
